---------------------------- MODULE Spec2Model ----------------------------
(***************************************************************************)
(* A model of the cache system: the single-flight coalescer, the eviction  *)
(* engines (Lru, LruK, Lfu, AvgLfu) over the intrusive LinkedList, and the  *)
(* cache group that composes them.  Each subsystem has its own              *)
(* specification over the shared variables; the variables of the other      *)
(* subsystems stay at their initial values.                                 *)
(***************************************************************************)
EXTENDS Integers, Sequences, FiniteSets, TLC

\* ------------------------------------------------------------------ bounds
NumThreads == 2
NumSfKeys == 1
MaxVal == 1
NumKeys == 3
MaxCap == 2
MaxSize == 3
MaxFreq == 3
MaxAvg == 1
MaxDebt == 1
MaxArcFreq == 2
NumNodes == 2
MaxReplica == 2
MaxTotal == 8
MaxSlice == 6
MaxLease == 2
NumAddrs == 2
MaxEvents == 3
MaxSetup == 2
NumConcKeys == 2
NumGroups == 2
MaxStops == 3
MaxRpcs == 3
NumArcKeys == 2
MaxArcVal == 2
NumPositions == 3

Threads == 1..NumThreads
SfKeys == 1..NumSfKeys
Vals == 1..MaxVal
Keys == 1..NumKeys

\* LruK's promotion threshold: the constructor's default kVal, and the value
\* the workload test constructs it with (PROMOTION_THRESHOLD).
DefaultKVal == 1
TestKVal == 2

\* std::optional<V> without a value (std::nullopt); V's values are 1..MaxVal.
Nullopt == 0
\* A promise whose set_value has not been called: future.get() blocks.
Unset == -1
\* The loader left by an exception: no Result was produced.
Raised == -2
\* map.find(key) == map.end()
NoTask == 0

VARIABLES
    sfMap,      \* SingleFlight::map        key -> task id, or NoTask
    promise,    \* Task::promise            task id -> Unset or the published Result
    pc,         \* per thread: position inside run()
    tkey,       \* per thread: run()'s key argument
    ttask,      \* per thread: the local shared_ptr<Task> task
    tres,       \* per thread: the local Result result
    leader,     \* per thread: TRUE when this call took the map.find(key) == end branch
    loaded      \* history: task id -> what the leader's func() produced

VARIABLES
    kind,       \* which engine class the object under test is
    lru,        \* the Lru object
    lruk,       \* the LruK object
    lfu,        \* the Lfu or AvgLfu object
    lastOp,     \* history: the last public call, [op, key, val]
    evicted,    \* history: the keys the last call erased from the key-to-node map
    oldest,     \* history: before the last call, the resident key the policy ranks first
                \* (Lru: used longest ago; Lfu, kept for an evicting call: lowest
                \* frequency, and the first to get it)
    recency     \* history: the resident keys; Lru: least recently used first,
                \* Lfu: lowest frequency first, and within one frequency by when
                \* each key got it, earliest first

VARIABLES
    streak      \* history of the LruK: [key, n], the key that was in neither stage and
                \* has since been put n times in succession by the last n calls

VARIABLES
    overlap,    \* history, per thread: the threads whose Get of the same key ran during its Get
    didLoad,    \* history, per thread: its Get ran the loading lambda and asked a peer or the handler
    lastLoad    \* history, per thread: the loading lambda its Get ran, [peer, pv, handled,
                \* hv, quiet]: PickPeer gave a peer, what peer->Get gave, cacheMissHandler_ was called, the
                \* value cacheMissHandler_ has for the key, and no Set or Del has been
                \* called since the lambda ended

VARIABLES
    arc,        \* the Arc object
    arcCall     \* history: the last call on it, [op, key, val, hit, was]: for a get
                \* val is the value returned and hit whether a half served it, was
                \* is where the key was and the capacities when the call started

VARIABLES
    hashRing,       \* the consistentHash object
    hashFunction,   \* consistentHash::hashFunction on the strings node-i
    hashCall        \* history: the last call on it, [op, arg, ret, was]: was is the
                    \* object when the call started

VARIABLES
    shardArgs,  \* the arguments of the sharded wrapper's constructor, [cap, slice]
    sharded     \* the sharded wrapper, [class, capacity, sliceNum, shards]

VARIABLES
    reg,        \* the etcdRegistry object's members
    etcd,       \* the etcd server: leases granted, leases alive, lease of the service key
    regPc,      \* where the thread that owns the registry is
    kaPc,       \* where keepalive_thread_ is inside KeepAlive()
    regCall     \* the last call on the registry, [op, ret, registered, lease, prev, revoked]:
                \* prev is the call before it, revoked that it called leaserevoke

VARIABLES
    latest      \* history: key -> the value of the most recent arc.put of it, 0 for none

VARIABLES
    ringView,   \* per cache node: the node its hash_ring.Get(key) names, 0 for an empty ring
    fwd         \* one Set or Delete in the cluster: [op, chain, rpcs, applied]

VARIABLES
    coord,      \* the coordinator: the addresses whose registration key exists
    gateway     \* the HttpGateway: [pc, ring, polled, seen, target]

VARIABLES
    server      \* the CacheServer that owns the registry: [pc, up, stops]

VARIABLES
    picker,     \* the PeerPicker object: peers, hash_ring and the state of mtx
    member,     \* the thread that runs FetchAllServices and the watcher's HandleEvents
    reader      \* a thread that calls PickPeer

VARIABLES
    kthr,       \* per thread: its call on the shared LruK, [pc, op, key, val, KeyFreq, v, ret]
    kstart      \* history: the LruK when the threads were started, and the calls made before

VARIABLES
    cacheGroups,        \* the global map: the names that have a CacheGroup
    cacheGroupsMutex,   \* the global std::mutex: the thread that owns it, 0 for none
    gthr,               \* per thread: its CreateCacheGroup or GetCacheGroup call, [pc, name, ret]
    made                \* history: name -> how many CacheGroup objects were put in the map for it

engVars == <<kind, lru, lruk, lfu, lastOp, evicted, oldest, recency, streak>>

grpVars == <<overlap, didLoad, lastLoad>>

arcVars == <<arc, arcCall>>

hashVars == <<hashRing, hashFunction, hashCall>>

shardVars == <<shardArgs, sharded>>

\* The objects that only their own specification calls.
regVars == <<reg, etcd, regPc, kaPc, regCall>>

oldFarVars == <<shardVars, regVars>>

pickVars == <<picker, member, reader>>

concVars == <<kthr, kstart>>

dirVars == <<cacheGroups, cacheGroupsMutex, gthr, made>>

srvVars == <<server>>

valVars == <<latest>>

fwdVars == <<ringView, fwd>>

gwVars == <<coord, gateway>>

moreVars == <<pickVars, concVars, dirVars, srvVars, valVars, fwdVars, gwVars>>

farVars == <<oldFarVars, moreVars>>

sfVars == <<sfMap, promise, pc, tkey, ttask, tres, leader, loaded>>

\* What a call on an engine leaves alone, and what a step of run() does.
NotEng == <<sfVars, grpVars>>
NotSf == <<engVars, grpVars, arcVars, hashVars, farVars>>

\* Task objects live on the heap behind shared_ptr handles: one per map entry
\* and one per thread inside run() at most.
TaskIds == 1..(NumThreads + NumSfKeys)

\* The Task objects some shared_ptr still points to.
Held(m, tt) == {m[k] : k \in SfKeys} \cup {tt[t] : t \in Threads}

\* make_shared<Task>(): a Task object no handle points to.
NewTask == CHOOSE i \in TaskIds : i \notin Held(sfMap, ttask)

\* The last shared_ptr to a Task is gone: the Task (its promise) is destroyed.
Destroyed(p, m, tt) == [i \in TaskIds |-> IF i \in Held(m, tt) THEN p[i] ELSE Unset]

SfInit ==
    /\ sfMap = [k \in SfKeys |-> NoTask]
    /\ promise = [i \in TaskIds |-> Unset]
    /\ pc = [t \in Threads |-> "idle"]
    /\ tkey = [t \in Threads |-> 0]
    /\ ttask = [t \in Threads |-> NoTask]
    /\ tres = [t \in Threads |-> Nullopt]
    /\ leader = [t \in Threads |-> FALSE]
    /\ loaded = [i \in TaskIds |-> Unset]

\* A run() that forgets to store its task.
RegisterNothing(m, k, id) == m

\* map[key] = task
Register(m, k, id) == [m EXCEPT ![k] = id]

\* run(key, func) called by a thread at position `at`.
\* Lines 49-53: under mtx, no entry for key: make the task, store it, unlock.
RunLeader(t, k, at) ==
    /\ pc[t] = at
    /\ sfMap[k] = NoTask
    /\ tkey' = [tkey EXCEPT ![t] = k]
    /\ sfMap' = Register(sfMap, k, NewTask)
    /\ ttask' = [ttask EXCEPT ![t] = NewTask]
    /\ leader' = [leader EXCEPT ![t] = TRUE]
    /\ pc' = [pc EXCEPT ![t] = "func"]
    /\ UNCHANGED <<promise, tres, loaded, NotSf>>

\* Lines 61-62: under mtx, an entry exists: take the shared task, unlock.
RunWaiter(t, k, at) ==
    /\ pc[t] = at
    /\ sfMap[k] # NoTask
    /\ tkey' = [tkey EXCEPT ![t] = k]
    /\ ttask' = [ttask EXCEPT ![t] = sfMap[k]]
    /\ pc' = [pc EXCEPT ![t] = "wait"]
    /\ UNCHANGED <<sfMap, promise, tres, leader, loaded, NotSf>>

\* Line 55: func() returns r (a value, or std::nullopt).
FuncDone(t, r) ==
    /\ pc[t] = "func"
    /\ tres' = [tres EXCEPT ![t] = r]
    /\ loaded' = [loaded EXCEPT ![ttask[t]] = r]
    /\ pc' = [pc EXCEPT ![t] = "publish"]
    /\ UNCHANGED <<sfMap, promise, tkey, ttask, leader, NotSf>>

\* Line 55: func() throws.  Nothing catches it inside run(): the frame is left,
\* the local task handle is dropped, the map keeps its own handle to the Task.
FuncRaise(t) ==
    /\ pc[t] = "func"
    /\ loaded' = [loaded EXCEPT ![ttask[t]] = Raised]
    /\ pc' = [pc EXCEPT ![t] = "raised"]
    /\ UNCHANGED <<sfMap, promise, tkey, ttask, tres, leader, NotSf>>

\* A leader that publishes an empty result whatever its loader gave.
SetValueNullopt(p, id, r) == [p EXCEPT ![id] = Nullopt]

\* task->promise.set_value(result)
SetValue(p, id, r) == [p EXCEPT ![id] = r]

\* Line 56.
Publish(t) ==
    /\ pc[t] = "publish"
    /\ promise' = SetValue(promise, ttask[t], tres[t])
    /\ pc' = [pc EXCEPT ![t] = "relock"]
    /\ UNCHANGED <<sfMap, tkey, ttask, tres, leader, loaded, NotSf>>

\* Lines 57-59: under mtx again, map.erase(key); return result.
Erase(t) ==
    /\ pc[t] = "relock"
    /\ sfMap' = [sfMap EXCEPT ![tkey[t]] = NoTask]
    /\ pc' = [pc EXCEPT ![t] = "returned"]
    /\ UNCHANGED <<promise, tkey, ttask, tres, leader, loaded, NotSf>>

\* Lines 63-64: task->future.get() returns once the promise holds a value.
FutureGet(t) ==
    /\ pc[t] = "wait"
    /\ promise[ttask[t]] # Unset
    /\ tres' = [tres EXCEPT ![t] = promise[ttask[t]]]
    /\ pc' = [pc EXCEPT ![t] = "returned"]
    /\ UNCHANGED <<sfMap, promise, tkey, ttask, leader, loaded, NotSf>>

\* The caller has the result (or the exception) and the thread is free again.
SfLeave(t) ==
    /\ pc[t] \in {"returned", "raised"}
    /\ pc' = [pc EXCEPT ![t] = "idle"]
    /\ tkey' = [tkey EXCEPT ![t] = 0]
    /\ ttask' = [ttask EXCEPT ![t] = NoTask]
    /\ tres' = [tres EXCEPT ![t] = Nullopt]
    /\ leader' = [leader EXCEPT ![t] = FALSE]
    /\ promise' = Destroyed(promise, sfMap, ttask')
    /\ loaded' = Destroyed(loaded, sfMap, ttask')
    /\ UNCHANGED <<sfMap, NotSf>>

SfNext ==
    \E t \in Threads :
        \/ \E k \in SfKeys : RunLeader(t, k, "idle")
        \/ \E k \in SfKeys : RunWaiter(t, k, "idle")
        \/ \E r \in {Nullopt} \cup Vals : FuncDone(t, r)
        \/ FuncRaise(t)
        \/ Publish(t)
        \/ Erase(t)
        \/ FutureGet(t)
        \/ SfLeave(t)

\* ------------------------------------------------------------ LinkedList
\* A list is the sequence of its nodes between the dummy head and tail.  An
\* engine keeps at most one node per key, so a node is named by its key.

\* node is reachable from head->next
Linked(l, n) == \E i \in 1..Len(l) : l[i] = n

\* LinkedList::insertToEnd
insertToEnd(l, n) == Append(l, n)

\* LinkedList::remove of a node that is linked: prev->next = next, next->prev = prev.
Unlink(l, n) == SelectSeq(l, LAMBDA x : x # n)

\* LinkedList::isEmpty
isEmpty(l) == l = << >>

\* std::unordered_map: m[k] = e, m.erase(k)
MapPut(m, k, e) == [x \in (DOMAIN m) \cup {k} |-> IF x = k THEN e ELSE m[x]]
MapErase(m, k) == [x \in (DOMAIN m) \ {k} |-> m[x]]
EmptyMap == [x \in {} |-> 0]

\* Value(): what get returns on a miss.
DefaultValue == 0

\* ------------------------------------------------------------------- Lru
\* An Lru object: list (head first), cacheMap (key -> node, a node being its
\* val and freq), size, capacity.  crashed: an operation dereferenced a null
\* pointer (undefined behaviour; the build faults) and the process is gone.
NewLru(cap) ==
    [list |-> << >>, cacheMap |-> EmptyMap, size |-> 0, capacity |-> cap, crashed |-> FALSE]

Crash(c) == [c EXCEPT !.crashed = TRUE]

\* list->remove(node) with node = cacheMap[key].  A node that is not linked has
\* next == nullptr, and remove() then writes through that null pointer.
ListRemove(c, k) ==
    IF Linked(c.list, k) THEN [c EXCEPT !.list = Unlink(@, k)] ELSE Crash(c)

\* Lru::insertBack(key, value): a new node (freq 1) at the tail.
insertBackNew(c, k, v) ==
    [c EXCEPT !.size = @ + 1,
              !.list = insertToEnd(@, k),
              !.cacheMap = MapPut(@, k, [val |-> v, freq |-> 1])]

\* Lru::insertBack(node): the same node at the tail.
insertBackNode(c, k) ==
    [c EXCEPT !.size = @ + 1, !.list = insertToEnd(@, k)]

\* Lru::removelru: removeFront() returns nullptr on an empty list and
\* node->getKey() dereferences it.
removelru(c) ==
    IF isEmpty(c.list) THEN Crash(c)
    ELSE [c EXCEPT !.list = Tail(@),
                   !.cacheMap = MapErase(@, Head(c.list)),
                   !.size = @ - 1]

\* A put that never evicts.
LruPutNoEvict(c, k, v) ==
    IF k \in DOMAIN c.cacheMap
    THEN LET d == ListRemove(c, k) IN IF d.crashed THEN d ELSE insertBackNew(d, k, v)
    ELSE insertBackNew(c, k, v)

\* Lru::put
LruPut(c, k, v) ==
    IF k \in DOMAIN c.cacheMap
    THEN LET d == ListRemove(c, k) IN IF d.crashed THEN d ELSE insertBackNew(d, k, v)
    ELSE IF c.size >= c.capacity
         THEN LET d == removelru(c) IN IF d.crashed THEN d ELSE insertBackNew(d, k, v)
         ELSE insertBackNew(c, k, v)

\* A get that leaves the node where it is in the list.
LruGetNoTouch(c, k) ==
    IF k \in DOMAIN c.cacheMap THEN [c EXCEPT !.size = @ + 1] ELSE c

\* Lru::get: the object after the call.
LruGet(c, k) ==
    IF k \in DOMAIN c.cacheMap
    THEN LET d == ListRemove(c, k) IN IF d.crashed THEN d ELSE insertBackNode(d, k)
    ELSE c

\* Lru::get: the value returned.
LruGetValue(c, k) ==
    IF k \in DOMAIN c.cacheMap THEN c.cacheMap[k].val ELSE DefaultValue

\* Lru::remove
LruRemove(c, k) ==
    IF k \in DOMAIN c.cacheMap THEN ListRemove(c, k) ELSE c

\* Lru::contains
LruContains(c, k) == k \in DOMAIN c.cacheMap

\* Lru::getFrequency
LruGetFrequency(c, k) ==
    IF k \in DOMAIN c.cacheMap THEN c.cacheMap[k].freq ELSE 0

\* Lru::setFrequency
LruSetFrequency(c, k, f) ==
    IF k \in DOMAIN c.cacheMap THEN [c EXCEPT !.cacheMap[k].freq = f] ELSE c

\* ------------------------------------------------------------------ LruK
\* An LruK object: the Lru it derives from (the hot stage), coldCache and
\* promotionThresholds.
NewLruK(cap, coldCacheSize, kVal) ==
    [hot |-> NewLru(cap), cold |-> NewLru(coldCacheSize), promotionThresholds |-> kVal]

LruKCrashed(e) == e.hot.crashed \/ e.cold.crashed

\* LruK::put
LruKPut(e, k, v) ==
    IF LruContains(e.hot, k)
    THEN [e EXCEPT !.hot = LruPut(@, k, v)]
    ELSE LET KeyFreq == LruGetFrequency(e.cold, k) IN
         IF KeyFreq >= e.promotionThresholds
         THEN LET c1 == LruRemove(e.cold, k) IN
              IF c1.crashed THEN [e EXCEPT !.cold = c1]
              ELSE [e EXCEPT !.cold = c1, !.hot = LruPut(@, k, v)]
         ELSE LET c1 == LruPut(e.cold, k, v) IN
              IF c1.crashed THEN [e EXCEPT !.cold = c1]
              ELSE [e EXCEPT !.cold = LruSetFrequency(c1, k, KeyFreq + 1)]

\* LruK::get: the object after the call.
LruKGet(e, k) ==
    IF LruContains(e.hot, k)
    THEN [e EXCEPT !.hot = LruGet(@, k)]
    ELSE IF LruContains(e.cold, k)
    THEN LET keyFreq == LruGetFrequency(e.cold, k)
             val == LruGetValue(e.cold, k)
             c1 == LruGet(e.cold, k)
         IN  IF c1.crashed THEN [e EXCEPT !.cold = c1]
             ELSE IF keyFreq >= e.promotionThresholds
             THEN LET c2 == LruRemove(c1, k)
                      h1 == LruPut(e.hot, k, val)
                  IN  IF c2.crashed \/ h1.crashed THEN [e EXCEPT !.cold = c2, !.hot = h1]
                      ELSE [e EXCEPT !.cold = c2, !.hot = LruGet(h1, k)]
             ELSE [e EXCEPT !.cold = LruSetFrequency(c1, k, keyFreq + 1)]
    ELSE e

\* LruK::get: the value returned.
LruKGetValue(e, k) ==
    IF LruContains(e.hot, k) THEN LruGetValue(e.hot, k)
    ELSE IF LruContains(e.cold, k) THEN LruGetValue(e.cold, k)
    ELSE DefaultValue

\* ------------------------------------------------------------- Lfu, AvgLfu
\* INT_MAX
IntMax == 2147483647

\* An Lfu object: mp (key -> node), freqList (frequency -> list, for the
\* buckets made so far), minFreq, size, cap.  avg is TRUE for an AvgLfu, which
\* adds totalFreq, averageFreq and maximumFreq and overrides the two hooks.
NewLfu(capacity, isAvg, maxFreq) ==
    [mp |-> EmptyMap, freqList |-> [f \in {1} |-> << >>], minFreq |-> 1,
     size |-> 0, cap |-> capacity, avg |-> isAvg, totalFreq |-> 0,
     averageFreq |-> 0, maximumFreq |-> maxFreq, crashed |-> FALSE]

\* 2^64 = n * q + r: the low 32 bits of q as a signed int, and r.
Pow64QuotLow(n) ==
    CASE n = 3 -> 1431655765
      [] n = 5 -> 858993459
      [] n = 6 -> -1431655766
      [] n = 7 -> -1840700270
      [] OTHER -> 0

Pow64Rem(n) ==
    CASE n = 3 -> 1
      [] n = 5 -> 1
      [] n = 6 -> 4
      [] n = 7 -> 2
      [] OTHER -> 0

\* averageFreq = totalFreq / mp.size(): the int is converted to the unsigned
\* 64-bit size_t, divided, and the quotient narrowed to the 32-bit int
\* (n in 1..8, |total| small).
AvgDiv(total, n) ==
    IF total >= 0 THEN total \div n
    ELSE Pow64QuotLow(n) + ((Pow64Rem(n) + total) \div n)

\* Lfu::removeNode
removeNode(l, k) ==
    [l EXCEPT !.freqList[l.mp[k].freq] = Unlink(@, k)]

\* Lfu::insertNode
insertNode(l, k) ==
    LET f == l.mp[k].freq
        old == IF f \in DOMAIN l.freqList THEN l.freqList[f] ELSE << >>
    IN  [l EXCEPT !.freqList = MapPut(@, f, insertToEnd(old, k))]

\* Lfu::updateNode
updateNode(l, k) ==
    LET a == removeNode(l, k)
        b == [a EXCEPT !.mp[k].freq = @ + 1]
    IN  insertNode(b, k)

SetMin(S) == CHOOSE x \in S : \A y \in S : x <= y

\* An updateMinFreq that leaves minFreq as it is.
updateMinFreqStale(l) == l

\* Lfu::updateMinFreq
updateMinFreq(l) ==
    LET ne == {f \in DOMAIN l.freqList : ~isEmpty(l.freqList[f])}
    IN  [l EXCEPT !.minFreq = IF ne = {} THEN IntMax ELSE SetMin(ne)]

\* AvgLfu::decreaseTotalFreq (mp.size() = 0 divides by zero)
decreaseTotalFreq(l, num) ==
    IF DOMAIN l.mp = {} THEN Crash(l)
    ELSE [l EXCEPT !.totalFreq = @ - num,
                   !.averageFreq = AvgDiv(l.totalFreq - num, Cardinality(DOMAIN l.mp))]

\* Lfu::removeLFUHook, AvgLfu::removeLFUHook
removeLFUHook(l, fre) == IF l.avg THEN decreaseTotalFreq(l, fre) ELSE l

\* A removeLFU that pops the back of the minimum bucket.
removeLFUBack(l) ==
    IF l.minFreq \notin DOMAIN l.freqList THEN Crash(l)
    ELSE IF isEmpty(l.freqList[l.minFreq]) THEN Crash(l)
    ELSE LET b == l.freqList[l.minFreq]
             k == b[Len(b)]
             a == [l EXCEPT !.freqList[l.minFreq] = SubSeq(b, 1, Len(b) - 1)]
             c == removeLFUHook(a, l.mp[k].freq)
         IN  [c EXCEPT !.mp = MapErase(@, k)]

\* Lfu::removeLFU: freqList[minFreq] of a frequency with no bucket is a null
\* pointer, and removeFront() of an empty bucket returns one.
removeLFU(l) ==
    IF l.minFreq \notin DOMAIN l.freqList THEN Crash(l)
    ELSE IF isEmpty(l.freqList[l.minFreq]) THEN Crash(l)
    ELSE LET k == Head(l.freqList[l.minFreq])
             a == [l EXCEPT !.freqList[l.minFreq] = Tail(@)]
             b == removeLFUHook(a, l.mp[k].freq)
         IN  [b EXCEPT !.mp = MapErase(@, k)]

\* Lfu::insertNewNode, after mp[key] = newNode
insertNewNode(l, k) == [insertNode(l, k) EXCEPT !.minFreq = 1]

\* Lfu::put
LfuPut(l, k, v) ==
    IF l.cap <= 0 THEN l
    ELSE IF k \in DOMAIN l.mp
    THEN updateMinFreq([updateNode(l, k) EXCEPT !.mp[k].val = v])
    ELSE LET a == IF l.size = l.cap
                  THEN LET r == removeLFU(l) IN
                       IF r.crashed THEN r ELSE [r EXCEPT !.size = @ - 1]
                  ELSE l
         IN  IF a.crashed THEN a
             ELSE LET b == [a EXCEPT !.mp = MapPut(@, k, [val |-> v, freq |-> 1])]
                  IN  [insertNewNode(b, k) EXCEPT !.size = @ + 1]

\* The loop of AvgLfu::handleFreq over the nodes of mp, in the order `order`.
RECURSIVE decay(_, _)
decay(l, order) ==
    IF order = << >> THEN l
    ELSE LET k == Head(order)
             a == removeNode(l, k)
             f == a.mp[k].freq - a.maximumFreq
             b == [a EXCEPT !.mp[k].freq = IF f > 1 THEN f ELSE 1]
             c == [b EXCEPT !.totalFreq = @ + b.mp[k].freq]
         IN  decay(insertNode(c, k), Tail(order))

\* The orders in which an unordered_map may iterate over its keys S.
IterOrders(S) ==
    {p \in [1..Cardinality(S) -> S] : \A i, j \in 1..Cardinality(S) : p[i] = p[j] => i = j}

\* AvgLfu::handleFreq; iter is the order in which mp is iterated.
handleFreq(l, iter) ==
    LET a == decay([l EXCEPT !.totalFreq = 0], iter)
        b == [a EXCEPT !.averageFreq = AvgDiv(a.totalFreq, Cardinality(DOMAIN a.mp))]
    IN  updateMinFreq(b)

\* AvgLfu::increaseTotalFreq, lines 173-174: the new total and average.
countGet(l) ==
    [l EXCEPT !.totalFreq = @ + 1,
              !.averageFreq = AvgDiv(l.totalFreq + 1, Cardinality(DOMAIN l.mp))]

\* AvgLfu::increaseTotalFreq: the objects it may leave, one per iteration order.
increaseTotalFreq(l) ==
    LET a == countGet(l)
    IN  IF a.averageFreq > a.maximumFreq
        THEN {handleFreq(a, iter) : iter \in IterOrders(DOMAIN a.mp)}
        ELSE {a}

\* Lfu::GetHook, AvgLfu::GetHook
GetHook(l) == IF l.avg THEN increaseTotalFreq(l) ELSE {l}

\* Lfu::get on a hit, lines 59-62: the node one frequency up, minFreq moved on
\* when its bucket is left empty.
touch(l, k) ==
    LET a == updateNode(l, k)
    IN  IF a.mp[k].freq - 1 = a.minFreq /\ isEmpty(a.freqList[a.minFreq])
        THEN [a EXCEPT !.minFreq = @ + 1]
        ELSE a

\* Lfu::get: the objects the call may leave.
LfuGet(l, k) ==
    IF k \notin DOMAIN l.mp THEN {l} ELSE GetHook(touch(l, k))

\* Lfu::get: the value returned.
LfuGetValue(l, k) ==
    IF k \in DOMAIN l.mp THEN l.mp[k].val ELSE DefaultValue

\* ------------------------------------------------------------------- Arc
\* A node of an Arc list is [key, val, freq].  A list is the sequence of its
\* nodes, head first; its getSize() is the length.  A map is the set of its
\* keys: the node it holds for a key is the node of that key nearest the tail,
\* because a node is appended when it is stored in the map and the key is
\* erased whenever a node of that key is taken off the list.

\* Arc(capacity, promotionThreshold = 2)
DefaultPromotionThreshold == 2

NewNode(k, v) == [key |-> k, val |-> v, freq |-> 1]

\* The position of the node a map holds for k.
MappedAt(l, k) == CHOOSE i \in 1..Len(l) : l[i].key = k /\ \A j \in (i + 1)..Len(l) : l[j].key # k

\* LinkedList::remove of the node at position i.
RemoveAt(l, i) == SubSeq(l, 1, i - 1) \o SubSeq(l, i + 1, Len(l))

\* ArcLru(capacity, promotionThreshold)
NewArcLru(cap, threshold) ==
    [capacity |-> cap, promotionThreshold |-> threshold, list |-> << >>,
     cacheMap |-> {}, ghostlist |-> << >>, ghostMap |-> {}]

\* ArcLru::removeGhost, ArcLfu::removeGhost
removeGhost(r, k) ==
    [r EXCEPT !.ghostlist = RemoveAt(@, MappedAt(@, k)), !.ghostMap = @ \ {k}]

\* ArcLru::insertGhost, ArcLfu::insertGhost
insertGhost(r, n) ==
    [r EXCEPT !.ghostlist = insertToEnd(@, [n EXCEPT !.freq = 1]), !.ghostMap = @ \cup {n.key}]

\* ArcLru::removeOldestGhost, ArcLfu::removeOldestGhost
removeOldestGhost(r) ==
    IF isEmpty(r.ghostlist) THEN r
    ELSE [r EXCEPT !.ghostlist = Tail(@), !.ghostMap = @ \ {Head(r.ghostlist).key}]

\* ArcLru::evictMain
ArcLruEvictMain(r) ==
    IF isEmpty(r.list) THEN r
    ELSE LET node == Head(r.list)
             a == [r EXCEPT !.list = Tail(@), !.cacheMap = @ \ {node.key}]
             b == IF Len(a.ghostlist) >= a.capacity THEN removeOldestGhost(a) ELSE a
         IN  insertGhost(b, node)

\* ArcLru::insertNewMain (returns false)
ArcLruInsertNewMain(r, k, v) ==
    LET a == IF Len(r.list) >= r.capacity THEN ArcLruEvictMain(r) ELSE r
    IN  [a EXCEPT !.list = insertToEnd(@, NewNode(k, v)), !.cacheMap = @ \cup {k}]

\* ArcLru::updateNode
ArcLruUpdateNode(r, k) ==
    LET i == MappedAt(r.list, k)
    IN  [r EXCEPT !.list = insertToEnd(RemoveAt(@, i), [(r.list[i]) EXCEPT !.freq = @ + 1])]

\* ArcLru::updateNodeValue: the object, and whether the node reached the threshold.
ArcLruUpdateNodeValue(r, k, v) ==
    LET a == [r EXCEPT !.list[MappedAt(r.list, k)].val = v]
        b == ArcLruUpdateNode(a, k)
    IN  [c |-> b, flag |-> b.list[Len(b.list)].freq >= b.promotionThreshold]

\* ArcLru::checkGhost
ArcLruCheckGhost(r, k) ==
    IF k \in r.ghostMap THEN [c |-> removeGhost(r, k), found |-> TRUE]
    ELSE [c |-> r, found |-> FALSE]

\* ArcLru::increaseCapacity, ArcLfu::increaseCapacity
increaseCapacity(r) == [r EXCEPT !.capacity = @ + 1]

\* A decreaseCapacity that takes one off whatever the capacity is.
ArcLruDecreaseCapacityBelowOne(r) ==
    [c |-> [r EXCEPT !.capacity = @ - 1], done |-> TRUE]

\* ArcLru::decreaseCapacity
ArcLruDecreaseCapacity(r) ==
    IF r.capacity > 1
    THEN LET a == [r EXCEPT !.capacity = @ - 1]
             b == IF Len(a.list) > a.capacity THEN ArcLruEvictMain(a) ELSE a
             d == IF Len(b.ghostlist) > b.capacity THEN removeOldestGhost(b) ELSE b
         IN  [c |-> d, done |-> TRUE]
    ELSE [c |-> r, done |-> FALSE]

\* ArcLru::put: the call ends in insertNewMain whichever branch ran before it,
\* and flag is what insertNewMain returned.
ArcLruPut(r, k, v) ==
    LET a == IF k \in r.cacheMap THEN ArcLruUpdateNodeValue(r, k, v).c
             ELSE IF k \in r.ghostMap THEN removeGhost(r, k)
             ELSE r
    IN  [c |-> ArcLruInsertNewMain(a, k, v), flag |-> FALSE]

\* ArcLru::get(key, value, flag)
ArcLruGet(r, k) ==
    IF k \in r.cacheMap
    THEN LET v == r.list[MappedAt(r.list, k)].val
             u == ArcLruUpdateNodeValue(r, k, v)
         IN  [c |-> u.c, hit |-> TRUE, value |-> v, flag |-> u.flag]
    ELSE IF k \in r.ghostMap
    THEN LET v == r.ghostlist[MappedAt(r.ghostlist, k)].val
         IN  [c |-> ArcLruInsertNewMain(removeGhost(r, k), k, v), hit |-> FALSE,
              value |-> v, flag |-> FALSE]
    ELSE [c |-> r, hit |-> FALSE, value |-> DefaultValue, flag |-> FALSE]

\* ArcLfu(capacity, promotionThreshold): cacheMap is mp (key -> val and freq of
\* its node), freqList holds the keys of each bucket, head first.
NewArcLfu(cap, threshold) ==
    [capacity |-> cap, promotionThreshold |-> threshold, mp |-> EmptyMap,
     freqList |-> [f \in {1} |-> << >>], minFreq |-> 1,
     ghostlist |-> << >>, ghostMap |-> {}, crashed |-> FALSE]

\* ArcLfu::updateMinFreq
ArcLfuUpdateMinFreq(f) ==
    LET ne == {x \in DOMAIN f.freqList : ~isEmpty(f.freqList[x])}
    IN  [f EXCEPT !.minFreq = IF ne = {} THEN IntMax ELSE SetMin(ne)]

\* ArcLfu::updateNode
ArcLfuUpdateNode(f, k) ==
    LET old == f.mp[k].freq
        a == [f EXCEPT !.freqList[old] = Unlink(@, k), !.mp[k].freq = old + 1]
        b == IF old + 1 \in DOMAIN a.freqList THEN a
             ELSE [a EXCEPT !.freqList = MapPut(@, old + 1, << >>)]
    IN  [b EXCEPT !.freqList[old + 1] = insertToEnd(@, k)]

\* ArcLfu::evictMain (freqList[minFreq] of a frequency that has no bucket is a
\* null pointer)
ArcLfuEvictMain(f) ==
    IF f.minFreq \notin DOMAIN f.freqList THEN Crash(f)
    ELSE IF isEmpty(f.freqList[f.minFreq]) THEN f
    ELSE LET k == Head(f.freqList[f.minFreq])
             node == [key |-> k, val |-> f.mp[k].val, freq |-> f.mp[k].freq]
             a == [f EXCEPT !.freqList[f.minFreq] = Tail(@), !.mp = MapErase(@, k)]
             b == IF Len(a.ghostlist) > a.capacity THEN removeOldestGhost(a) ELSE a
         IN  insertGhost(b, node)

\* ArcLfu::insertNewMain
ArcLfuInsertNewMain(f, k, v) ==
    LET a == IF Cardinality(DOMAIN f.mp) >= f.capacity THEN ArcLfuEvictMain(f) ELSE f
    IN  IF a.crashed THEN a
        ELSE [a EXCEPT !.freqList[1] = insertToEnd(@, k),
                       !.mp = MapPut(@, k, [val |-> v, freq |-> 1]),
                       !.minFreq = 1]

\* ArcLfu::decreaseCapacity
ArcLfuDecreaseCapacity(f) ==
    IF f.capacity > 1
    THEN LET a == [f EXCEPT !.capacity = @ - 1]
             b == IF Cardinality(DOMAIN a.mp) > a.capacity THEN ArcLfuEvictMain(a) ELSE a
             d == IF Len(b.ghostlist) > b.capacity THEN removeOldestGhost(b) ELSE b
         IN  [c |-> d, done |-> TRUE]
    ELSE [c |-> f, done |-> FALSE]

\* ArcLfu::checkGhost
ArcLfuCheckGhost(f, k) ==
    IF k \in f.ghostMap THEN [c |-> removeGhost(f, k), found |-> TRUE]
    ELSE [c |-> f, found |-> FALSE]

\* The hit branch of ArcLfu::get and ArcLfu::put after the node is found.
ArcLfuHit(f, k) ==
    LET a == ArcLfuUpdateNode(f, k)
    IN  IF a.mp[k].freq - 1 = a.minFreq /\ isEmpty(a.freqList[a.minFreq])
        THEN ArcLfuUpdateMinFreq(a) ELSE a

\* ArcLfu::get(key, value) and ArcLfu::get(key) around it
ArcLfuGet(f, k) ==
    IF k \in DOMAIN f.mp
    THEN [c |-> ArcLfuHit(f, k), hit |-> TRUE, value |-> f.mp[k].val]
    ELSE IF k \in f.ghostMap
    THEN LET v == f.ghostlist[MappedAt(f.ghostlist, k)].val
         IN  [c |-> ArcLfuInsertNewMain(removeGhost(f, k), k, v), hit |-> FALSE,
              value |-> DefaultValue]
    ELSE [c |-> f, hit |-> FALSE, value |-> DefaultValue]

\* ArcLfu::put
ArcLfuPut(f, k, v) ==
    IF k \in DOMAIN f.mp THEN ArcLfuHit([f EXCEPT !.mp[k].val = v], k)
    ELSE IF k \in f.ghostMap THEN ArcLfuInsertNewMain(removeGhost(f, k), k, v)
    ELSE ArcLfuInsertNewMain(f, k, v)

\* Arc(capacity, promotionThreshold): both halves are built with the whole capacity.
NewArc(cap, threshold) ==
    [capacity |-> cap, promotionThreshold |-> threshold,
     lruCache |-> NewArcLru(cap, threshold), lfuCache |-> NewArcLfu(cap, threshold)]

\* Arc::checkGhost: the object, and whether either ghost list held the key.
ArcCheckGhost(a, k) ==
    LET r == ArcLruCheckGhost(a.lruCache, k)
    IN  IF r.found
        THEN LET d == ArcLfuDecreaseCapacity(a.lfuCache)
             IN  [c |-> [a EXCEPT !.lfuCache = d.c,
                                  !.lruCache = IF d.done THEN increaseCapacity(r.c) ELSE r.c],
                  found |-> TRUE]
        ELSE LET g == ArcLfuCheckGhost(a.lfuCache, k)
             IN  IF g.found
                 THEN LET d == ArcLruDecreaseCapacity(a.lruCache)
                      IN  [c |-> [a EXCEPT !.lruCache = d.c,
                                           !.lfuCache = IF d.done THEN increaseCapacity(g.c)
                                                        ELSE g.c],
                           found |-> TRUE]
                 ELSE [c |-> a, found |-> FALSE]

\* Arc::put
ArcPut(a, k, v) ==
    LET g == ArcCheckGhost(a, k)
    IN  IF g.found THEN [g.c EXCEPT !.lfuCache = ArcLfuPut(@, k, v)]
        ELSE LET p == ArcLruPut(a.lruCache, k, v)
                 b == [a EXCEPT !.lruCache = p.c]
             IN  IF p.flag THEN [b EXCEPT !.lfuCache = ArcLfuPut(@, k, v)] ELSE b

\* Arc::get: the object, and the value returned (Value() on a miss).
ArcGet(a, k) ==
    LET g == ArcCheckGhost(a, k).c
        r == ArcLruGet(g.lruCache, k)
        b == [g EXCEPT !.lruCache = r.c]
    IN  IF r.hit
        THEN [c |-> IF r.flag THEN [b EXCEPT !.lfuCache = ArcLfuPut(@, k, r.value)] ELSE b,
              hit |-> TRUE, value |-> r.value]
        ELSE LET f == ArcLfuGet(b.lfuCache, k)
             IN  [c |-> [b EXCEPT !.lfuCache = f.c], hit |-> f.hit, value |-> f.value]

\* --------------------------------------------------------- consistentHash
\* A node is named by a number, the string node + "-" + i by the pair <<node, i>>.
\* hashFunction is std::hash cut to an int: some function of the string, the same
\* at every call, which can send two strings to one position.
Nodes == 1..NumNodes
Positions == 1..NumPositions

\* The object: hashRing, hashToNode, NodeToReplicaNum and replicaNum.
RingOf(ring, h2n, n2r, rn) ==
    [hashRing |-> ring, hashToNode |-> h2n, NodeToReplicaNum |-> n2r, replicaNum |-> rn]

\* consistentHash(replicanum, ...)
NewRing(replicanum) == RingOf(<< >>, EmptyMap, EmptyMap, replicanum)

\* std::sort(hashRing.begin(), hashRing.end())
Sorted(s) == SortSeq(s, LAMBDA a, b : a < b)

IsSorted(s) == \A i \in 1..(Len(s) - 1) : s[i] <= s[i + 1]

\* The loop of Add from replica i on: the object, and what Add returns.
RECURSIVE AddFrom(_, _, _, _)
AddFrom(c, hf, node, i) ==
    IF i >= c.replicaNum
    THEN [c |-> [c EXCEPT !.NodeToReplicaNum = MapPut(@, node, c.replicaNum),
                          !.hashRing = Sorted(@)],
          ret |-> TRUE]
    ELSE LET hash == hf[<<node, i>>]
         IN  IF hash \in DOMAIN c.hashToNode THEN [c |-> c, ret |-> FALSE]
             ELSE AddFrom([c EXCEPT !.hashToNode = MapPut(@, hash, node),
                                    !.hashRing = Append(@, hash)],
                          hf, node, i + 1)

\* An Add that never looks whether a position is taken.
AddUnchecked(c, hf, node) ==
    [c |-> [c EXCEPT !.hashToNode = [p \in DOMAIN @ \cup {hf[<<node, i>>] : i \in 0..(c.replicaNum - 1)} |-> node],
                     !.hashRing = Sorted(@ \o [i \in 1..c.replicaNum |-> hf[<<node, i - 1>>]]),
                     !.NodeToReplicaNum = MapPut(@, node, c.replicaNum)],
     ret |-> TRUE]

\* consistentHash::Add
Add(c, hf, node) == AddFrom(c, hf, node, 0)

\* The loop of Remove from replica i on.
RECURSIVE RemoveFrom(_, _, _, _)
RemoveFrom(c, hf, node, i) ==
    IF i >= c.replicaNum THEN [c EXCEPT !.NodeToReplicaNum = MapErase(@, node)]
    ELSE LET hash == hf[<<node, i>>]
         IN  RemoveFrom([c EXCEPT !.hashToNode = MapErase(@, hash),
                                  !.hashRing = SelectSeq(@, LAMBDA x : x # hash)],
                        hf, node, i + 1)

\* A Remove that empties the ring.
RemoveEverything(c, hf, node) ==
    IF node \notin DOMAIN c.NodeToReplicaNum THEN [c |-> c, ret |-> FALSE]
    ELSE [c |-> NewRing(c.replicaNum), ret |-> TRUE]

\* consistentHash::Remove: the object, and what Remove returns.
Remove(c, hf, node) ==
    IF node \notin DOMAIN c.NodeToReplicaNum THEN [c |-> c, ret |-> FALSE]
    ELSE [c |-> RemoveFrom([c EXCEPT !.replicaNum = c.NodeToReplicaNum[node]], hf, node, 0),
          ret |-> TRUE]

\* std::lower_bound(hashRing.begin(), hashRing.end(), hash): the positions it
\* can return, Len + 1 standing for end().  On a ring that is not sorted the
\* call has no defined result.
LowerBound(ring, hash) ==
    IF IsSorted(ring)
    THEN {Cardinality({i \in 1..Len(ring) : ring[i] < hash}) + 1}
    ELSE 1..(Len(ring) + 1)

\* consistentHash::Get: the nodes it can return, 0 standing for "" (hashToNode[*it]
\* of a position without an entry is the empty string as well).
Get(c, hash) ==
    IF c.hashRing = << >> THEN {0}
    ELSE {IF c.hashRing[IF it > Len(c.hashRing) THEN 1 ELSE it] \in DOMAIN c.hashToNode
          THEN c.hashToNode[c.hashRing[IF it > Len(c.hashRing) THEN 1 ELSE it]]
          ELSE 0 : it \in LowerBound(c.hashRing, hash)}

\* ------------------------------------------------- the engines under test
Kinds == {"Lru", "LruK", "Lfu", "AvgLfu"}

NoOp == [op |-> "none", key |-> 0, val |-> 0]

NoStreak == [key |-> 0, n |-> 0]

NoArcCall == [op |-> "none", key |-> 0, val |-> 0, hit |-> FALSE,
              was |-> [rLive |-> FALSE, rGhost |-> FALSE, fLive |-> FALSE, fGhost |-> FALSE,
                       pr |-> 0, pf |-> 0, rFreq |-> 0]]

\* The constructors: Lru(cap), LruK(cap, coldCacheSize, kVal), Lfu(capacity),
\* AvgLfu(cap, maxFreq), each with a capacity of at least 1.
EngInit ==
    /\ kind \in Kinds
    /\ lru \in IF kind = "Lru" THEN {NewLru(c) : c \in 1..MaxCap} ELSE {NewLru(1)}
    /\ lruk \in IF kind = "LruK"
                THEN {NewLruK(c, cc, kv) : c \in 1..MaxCap, cc \in 1..MaxCap, kv \in DefaultKVal..TestKVal}
                ELSE {NewLruK(1, 1, 1)}
    /\ lfu \in CASE kind = "Lfu" -> {NewLfu(c, FALSE, 0) : c \in 1..MaxCap}
                 [] kind = "AvgLfu" -> {NewLfu(c, TRUE, m) : c \in 1..MaxCap, m \in 1..MaxAvg}
                 [] OTHER -> {NewLfu(1, FALSE, 0)}
    /\ lastOp = NoOp
    /\ evicted = {}
    /\ oldest = 0
    /\ recency = << >>
    /\ streak = NoStreak

\* No engine object is under test.
EngIdle ==
    /\ kind = "none"
    /\ lru = NewLru(1)
    /\ lruk = NewLruK(1, 1, 1)
    /\ lfu = NewLfu(1, FALSE, 0)
    /\ lastOp = NoOp
    /\ evicted = {}
    /\ oldest = 0
    /\ recency = << >>
    /\ streak = NoStreak

EngCrashed == lru.crashed \/ LruKCrashed(lruk) \/ lfu.crashed

\* The size counter grows with every hit; the model stops a counter at MaxSize.
SizeRoom(c, k) == k \in DOMAIN c.cacheMap => c.size < MaxSize

Called(o, k, v) == lastOp' = [op |-> o, key |-> k, val |-> v]

\* lru.put(k, v)
LruPutCall(k, v) ==
    /\ kind = "Lru" /\ ~EngCrashed
    /\ SizeRoom(lru, k)
    /\ lru' = LruPut(lru, k, v)
    /\ Called("put", k, v)
    /\ evicted' = (DOMAIN lru.cacheMap) \ (DOMAIN lru'.cacheMap)
    /\ oldest' = IF recency = << >> THEN 0 ELSE Head(recency)
    /\ recency' = Append(SelectSeq(recency, LAMBDA x : x # k /\ x \notin evicted'), k)
    /\ UNCHANGED <<kind, lruk, lfu, streak, NotEng, arcVars, hashVars, farVars>>

\* lru.get(k)
LruGetCall(k) ==
    /\ kind = "Lru" /\ ~EngCrashed
    /\ SizeRoom(lru, k)
    /\ lru' = LruGet(lru, k)
    /\ Called("get", k, 0)
    /\ evicted' = {}
    /\ oldest' = IF recency = << >> THEN 0 ELSE Head(recency)
    /\ recency' = IF Linked(recency, k) THEN Append(Unlink(recency, k), k) ELSE recency
    /\ UNCHANGED <<kind, lruk, lfu, streak, NotEng, arcVars, hashVars, farVars>>

\* lru.remove(k)
LruRemoveCall(k) ==
    /\ kind = "Lru" /\ ~EngCrashed
    /\ lru' = LruRemove(lru, k)
    /\ Called("remove", k, 0)
    /\ evicted' = {}
    /\ oldest' = IF recency = << >> THEN 0 ELSE Head(recency)
    /\ recency' = Unlink(recency, k)
    /\ UNCHANGED <<kind, lruk, lfu, streak, NotEng, arcVars, hashVars, farVars>>

\* lru.contains(k), lru.getFrequency(k): they read the object and change nothing.
LruQueryCall(k) ==
    /\ kind = "Lru" /\ ~EngCrashed
    /\ LruContains(lru, k) \in BOOLEAN
    /\ LruGetFrequency(lru, k) \in Int
    /\ UNCHANGED <<engVars, NotEng, arcVars, hashVars, farVars>>

\* lru.setFrequency(k, f)
LruSetFrequencyCall(k, f) ==
    /\ kind = "Lru" /\ ~EngCrashed
    /\ lru' = LruSetFrequency(lru, k, f)
    /\ Called("setFrequency", k, f)
    /\ evicted' = {}
    /\ UNCHANGED <<kind, lruk, lfu, oldest, recency, streak, NotEng, arcVars, hashVars, farVars>>

\* lruk.put(k, v)
LruKPutCall(k, v) ==
    /\ kind = "LruK" /\ ~EngCrashed
    /\ SizeRoom(lruk.hot, k) /\ SizeRoom(lruk.cold, k)
    /\ lruk' = LruKPut(lruk, k, v)
    /\ Called("put", k, v)
    /\ evicted' = ((DOMAIN lruk.hot.cacheMap) \cup (DOMAIN lruk.cold.cacheMap))
                    \ ((DOMAIN lruk'.hot.cacheMap) \cup (DOMAIN lruk'.cold.cacheMap))
    /\ streak' = IF ~LruContains(lruk.hot, k) /\ ~LruContains(lruk.cold, k)
                 THEN [key |-> k, n |-> 1]
                 ELSE IF streak.key = k /\ streak.n < lruk.promotionThresholds
                 THEN [key |-> k, n |-> streak.n + 1]
                 ELSE NoStreak
    /\ UNCHANGED <<kind, lru, lfu, oldest, recency, NotEng, arcVars, hashVars, farVars>>

\* lruk.get(k)
LruKGetCall(k) ==
    /\ kind = "LruK" /\ ~EngCrashed
    /\ SizeRoom(lruk.hot, k) /\ SizeRoom(lruk.cold, k)
    /\ lruk' = LruKGet(lruk, k)
    /\ Called("get", k, 0)
    /\ evicted' = ((DOMAIN lruk.hot.cacheMap) \cup (DOMAIN lruk.cold.cacheMap))
                    \ ((DOMAIN lruk'.hot.cacheMap) \cup (DOMAIN lruk'.cold.cacheMap))
    /\ streak' = NoStreak
    /\ UNCHANGED <<kind, lru, lfu, oldest, recency, NotEng, arcVars, hashVars, farVars>>

\* Frequencies grow with every hit; the model stops them at MaxFreq, and
\* totalFreq at -MaxDebt.
FreqRoom(l, k) ==
    /\ k \in DOMAIN l.mp => l.mp[k].freq < MaxFreq
    /\ l.totalFreq > -MaxDebt

\* The keys of seq ordered by their frequency in m, lowest first, the order of
\* seq kept inside one frequency.
ByFreq(seq, m) ==
    LET n == Len(seq)
        Before(i, j) == m[seq[i]].freq < m[seq[j]].freq
                            \/ (m[seq[i]].freq = m[seq[j]].freq /\ i <= j)
        rank == [j \in 1..n |-> Cardinality({i \in 1..n : Before(i, j)})]
    IN  [r \in 1..n |-> seq[CHOOSE j \in 1..n : rank[j] = r]]

\* Key k has just got its frequency in m: it goes behind the keys of seq that
\* have that frequency or a lower one.
Place(seq, m, k) ==
    SelectSeq(seq, LAMBDA x : x # k /\ m[x].freq <= m[k].freq)
        \o <<k>> \o SelectSeq(seq, LAMBDA x : x # k /\ m[x].freq > m[k].freq)

\* Of the resident keys with the lowest frequency, the one that got it first.
LeastFrequent ==
    LET low == {x \in DOMAIN lfu.mp : \A y \in DOMAIN lfu.mp : lfu.mp[x].freq <= lfu.mp[y].freq}
        first == SelectSeq(recency, LAMBDA x : x \in low)
    IN  IF first = << >> THEN 0 ELSE Head(first)

\* lfu.put(k, v)
LfuPutCall(k, v) ==
    /\ kind \in {"Lfu", "AvgLfu"} /\ ~EngCrashed
    /\ FreqRoom(lfu, k)
    /\ lfu' = LfuPut(lfu, k, v)
    /\ Called("put", k, v)
    /\ evicted' = (DOMAIN lfu.mp) \ (DOMAIN lfu'.mp)
    /\ oldest' = IF evicted' = {} THEN 0 ELSE LeastFrequent
    /\ recency' = IF k \in DOMAIN lfu'.mp
                  THEN Place(SelectSeq(recency, LAMBDA x : x \notin evicted'), lfu'.mp, k)
                  ELSE recency
    /\ UNCHANGED <<kind, lru, lruk, streak, NotEng, arcVars, hashVars, farVars>>

\* The get of k ends in a decay pass of the AvgLfu.
Decays(l, k) ==
    /\ l.avg /\ k \in DOMAIN l.mp
    /\ countGet(touch(l, k)).averageFreq > l.maximumFreq

\* lfu.get(k)
LfuGetCall(k) ==
    /\ kind \in {"Lfu", "AvgLfu"} /\ ~EngCrashed
    /\ FreqRoom(lfu, k)
    /\ lfu' \in LfuGet(lfu, k)
    /\ Called("get", k, 0)
    /\ evicted' = {}
    /\ oldest' = 0
    /\ IF Decays(lfu, k)
       THEN \E iter \in {CHOOSE i \in IterOrders(DOMAIN lfu.mp) :
                              lfu' = handleFreq(countGet(touch(lfu, k)), i)} :
                recency' = ByFreq(iter, lfu'.mp)
       ELSE recency' = IF k \in DOMAIN lfu.mp THEN Place(recency, lfu'.mp, k) ELSE recency
    /\ UNCHANGED <<kind, lru, lruk, streak, NotEng, arcVars, hashVars, farVars>>

LruNext ==
    \E k \in Keys :
        \/ \E v \in Vals : LruPutCall(k, v)
        \/ LruGetCall(k)
        \/ LruRemoveCall(k)
        \/ LruQueryCall(k)
        \/ \E f \in DefaultKVal..TestKVal : LruSetFrequencyCall(k, f)

LruKNext ==
    \E k \in Keys :
        \/ \E v \in Vals : LruKPutCall(k, v)
        \/ LruKGetCall(k)

LfuNext ==
    \E k \in Keys :
        \/ \E v \in Vals : LfuPutCall(k, v)
        \/ LfuGetCall(k)

EngNext == LruNext \/ LruKNext \/ LfuNext

\* ------------------------------------------------------ the Arc under test
ArcIdle ==
    /\ arc = NewArc(1, DefaultPromotionThreshold)
    /\ arcCall = NoArcCall

\* The constructor: Arc(capacity) with the default promotion threshold.
ArcInit ==
    /\ kind = "Arc"
    /\ lru = NewLru(1)
    /\ lruk = NewLruK(1, 1, 1)
    /\ lfu = NewLfu(1, FALSE, 0)
    /\ lastOp = NoOp
    /\ evicted = {}
    /\ oldest = 0
    /\ recency = << >>
    /\ streak = NoStreak
    /\ arc \in {NewArc(c, DefaultPromotionThreshold) : c \in 1..MaxCap}
    /\ arcCall = NoArcCall

ArcAlive == kind = "Arc" /\ ~arc.lfuCache.crashed

\* Where the key of a call is, and the two capacities, when the call starts.
ArcWas(a, k) ==
    [rLive |-> k \in a.lruCache.cacheMap, rGhost |-> k \in a.lruCache.ghostMap,
     fLive |-> k \in DOMAIN a.lfuCache.mp, fGhost |-> k \in a.lfuCache.ghostMap,
     pr |-> a.lruCache.capacity, pf |-> a.lfuCache.capacity,
     rFreq |-> IF k \in a.lruCache.cacheMap
               THEN a.lruCache.list[MappedAt(a.lruCache.list, k)].freq ELSE 0]

\* A node's frequency grows with every hit; the model stops it at MaxArcFreq.
ArcFreqRoom(a) ==
    /\ \A i \in 1..Len(a.lruCache.list) : a.lruCache.list[i].freq <= MaxArcFreq
    /\ \A k \in DOMAIN a.lfuCache.mp : a.lfuCache.mp[k].freq <= MaxArcFreq

\* arc.put(k, v)
ArcPutCall(k, v) ==
    /\ ArcAlive
    /\ \E n \in {ArcPut(arc, k, v)} :
           /\ ArcFreqRoom(n)
           /\ arc' = n
    /\ arcCall' = [op |-> "put", key |-> k, val |-> v, hit |-> FALSE, was |-> ArcWas(arc, k)]
    /\ UNCHANGED <<engVars, NotEng, hashVars, farVars>>

\* arc.get(k)
ArcGetCall(k) ==
    /\ ArcAlive
    /\ \E g \in {ArcGet(arc, k)} :
           /\ ArcFreqRoom(g.c)
           /\ arc' = g.c
           /\ arcCall' = [op |-> "get", key |-> k, val |-> g.value, hit |-> g.hit,
                          was |-> ArcWas(arc, k)]
    /\ UNCHANGED <<engVars, NotEng, hashVars, farVars>>

ArcNext ==
    \E k \in Keys :
        \/ \E v \in Vals : ArcPutCall(k, v)
        \/ ArcGetCall(k)

\* ------------------------------------------- the consistentHash under test
NoHashCall == [op |-> "none", arg |-> 0, ret |-> 0, was |-> NewRing(1)]

HashIdle ==
    /\ hashRing = NewRing(1)
    /\ hashFunction = [s \in Nodes \X (0..(MaxReplica - 1)) |-> 1]
    /\ hashCall = NoHashCall

\* The constructor, with a replica number of at least 1, and the hash function
\* of the build.
HashInit ==
    /\ hashRing \in {NewRing(n) : n \in 1..MaxReplica}
    /\ hashFunction \in [Nodes \X (0..(MaxReplica - 1)) -> Positions]
    /\ hashCall = NoHashCall

\* ring.Add(node)
HashAddCall(node) ==
    /\ \E r \in {Add(hashRing, hashFunction, node)} :
           /\ hashRing' = r.c
           /\ hashCall' = [op |-> "Add", arg |-> node, ret |-> r.ret, was |-> hashRing]
    /\ UNCHANGED <<hashFunction, engVars, NotEng, arcVars, farVars>>

\* ring.Remove(node)
HashRemoveCall(node) ==
    /\ \E r \in {Remove(hashRing, hashFunction, node)} :
           /\ hashRing' = r.c
           /\ hashCall' = [op |-> "Remove", arg |-> node, ret |-> r.ret, was |-> hashRing]
    /\ UNCHANGED <<hashFunction, engVars, NotEng, arcVars, farVars>>

\* ring.Get(key) for a key with hashFunction(key) = hash
HashGetCall(hash) ==
    /\ \E n \in Get(hashRing, hash) :
           hashCall' = [op |-> "Get", arg |-> hash, ret |-> n, was |-> hashRing]
    /\ UNCHANGED <<hashRing, hashFunction, engVars, NotEng, arcVars, farVars>>

HashNext ==
    \/ \E node \in Nodes : HashAddCall(node)
    \/ \E node \in Nodes : HashRemoveCall(node)
    \/ \E hash \in Positions : HashGetCall(hash)

\* ------------------------------------------------- the sharded wrappers
\* HashLruK(cap, slice, coldCacheSize, promotionThreshold): sliceNum shards, each
\* an LruK(sliceSize, coldCacheSize, promotionThreshold) with
\* sliceSize = capacity / sliceNum, the division of two ints.
HashLruK(cap, slice, coldCacheSize, promotionThreshold) ==
    LET sliceSize == cap \div slice
    IN  [class |-> "HashLruK", capacity |-> cap, sliceNum |-> slice,
         shards |-> [i \in 1..slice |-> NewLruK(sliceSize, coldCacheSize, promotionThreshold).hot.capacity]]

\* HashAvgLfu(cap, slice, maximumAverageThreshold): sliceNum shards, each an
\* AvgLfu(sliceSize, maximumAverageThreshold) with sliceSize = capacity / sliceNum.
HashAvgLfu(cap, slice, maximumAverageThreshold) ==
    LET sliceSize == cap \div slice
    IN  [class |-> "HashAvgLfu", capacity |-> cap, sliceNum |-> slice,
         shards |-> [i \in 1..slice |-> NewLfu(sliceSize, TRUE, maximumAverageThreshold).cap]]

NoShards == [class |-> "none", capacity |-> 0, sliceNum |-> 0, shards |-> << >>]

ShardIdle ==
    /\ shardArgs = [cap |-> 1, slice |-> 1]
    /\ sharded = NoShards

\* The arguments a caller passes: a total capacity and a slice count, both at
\* least 1.
ShardInit ==
    /\ shardArgs \in [cap : 1..MaxTotal, slice : 1..MaxSlice]
    /\ sharded = NoShards

\* HashLruK<K, V> cache(cap, slice, coldCacheSize, promotionThreshold)
NewHashLruKCall ==
    /\ sharded.class = "none"
    /\ sharded' = HashLruK(shardArgs.cap, shardArgs.slice, 1, DefaultKVal)
    /\ UNCHANGED <<shardArgs, sfVars, engVars, grpVars, arcVars, hashVars, regVars, moreVars>>

\* HashAvgLfu<K, V> cache(cap, slice)
NewHashAvgLfuCall ==
    /\ sharded.class = "none"
    /\ sharded' = HashAvgLfu(shardArgs.cap, shardArgs.slice, MaxAvg)
    /\ UNCHANGED <<shardArgs, sfVars, engVars, grpVars, arcVars, hashVars, regVars, moreVars>>

ShardNext == NewHashLruKCall \/ NewHashAvgLfuCall

\* ----------------------------------------------------------- etcdRegistry
LeaseIds == 1..MaxLease

\* What an int64_t that was never assigned may hold besides 0.
Garbage == -1

\* etcdRegistry::etcdRegistry only makes etcd_client_: lease_id_ and stop_ have
\* no initializer, so they start with whatever the storage holds.  registered
\* is history: Register has returned true and Unregister has not run since.
NewRegistry(lease, stop) ==
    [lease_id_ |-> lease, keep_alive_ |-> FALSE, joinable |-> FALSE,
     stop_ |-> stop, registered |-> FALSE]

NoEtcd == [granted |-> {}, live |-> {}, key |-> 0]

NoRegCall == [op |-> "none", ret |-> FALSE, registered |-> FALSE, lease |-> 0,
              prev |-> "none", revoked |-> FALSE]

RegIdle ==
    /\ reg = NewRegistry(0, FALSE)
    /\ etcd = NoEtcd
    /\ regPc = "none"
    /\ kaPc = "none"
    /\ regCall = NoRegCall

RegInit ==
    /\ reg \in {NewRegistry(l, st) : l \in {0, Garbage}, st \in BOOLEAN}
    /\ etcd = NoEtcd
    /\ regPc = "idle"
    /\ kaPc = "none"
    /\ regCall = NoRegCall

NotReg == <<sfVars, engVars, grpVars, arcVars, hashVars, shardVars, moreVars>>

\* leaserevoke(id) on the server: a lease that is alive ends, and the key
\* attached to it goes with it.
Revoked(e, id) ==
    [e EXCEPT !.live = @ \ {id}, !.key = IF @ = id THEN 0 ELSE @]

\* etcdRegistry::Register.  leaseOk and putOk are the answers of the server.
\* Assigning to keepalive_thread_ while it is joinable is std::terminate.
RegisterService(leaseOk, putOk) ==
    /\ regPc = "idle"
    /\ IF ~leaseOk
       THEN /\ regCall' = [op |-> "Register", ret |-> FALSE,
                           registered |-> reg.registered, lease |-> reg.lease_id_, prev |-> regCall.op, revoked |-> FALSE]
            /\ UNCHANGED <<reg, etcd, regPc, kaPc>>
       ELSE \E id \in LeaseIds :
            /\ id \notin etcd.granted
            /\ \A j \in LeaseIds : j < id => j \in etcd.granted
            /\ IF ~putOk
               THEN /\ reg' = [reg EXCEPT !.lease_id_ = id]
                    /\ etcd' = [etcd EXCEPT !.granted = @ \cup {id}, !.live = @ \cup {id}]
                    /\ regCall' = [op |-> "Register", ret |-> FALSE,
                                   registered |-> reg.registered, lease |-> id, prev |-> regCall.op, revoked |-> FALSE]
                    /\ UNCHANGED <<regPc, kaPc>>
               ELSE /\ etcd' = [granted |-> etcd.granted \cup {id},
                                live |-> etcd.live \cup {id}, key |-> id]
                    /\ IF reg.joinable
                       THEN /\ reg' = [reg EXCEPT !.lease_id_ = id, !.keep_alive_ = TRUE,
                                                  !.stop_ = FALSE]
                            /\ regPc' = "terminated"
                            /\ regCall' = [op |-> "Register", ret |-> FALSE,
                                           registered |-> reg.registered, lease |-> id, prev |-> regCall.op, revoked |-> FALSE]
                            /\ UNCHANGED kaPc
                       ELSE /\ reg' = [lease_id_ |-> id, keep_alive_ |-> TRUE,
                                       joinable |-> TRUE, stop_ |-> FALSE,
                                       registered |-> TRUE]
                            /\ kaPc' = "while"
                            /\ regCall' = [op |-> "Register", ret |-> TRUE,
                                           registered |-> TRUE, lease |-> id, prev |-> regCall.op, revoked |-> FALSE]
                            /\ UNCHANGED regPc
    /\ UNCHANGED NotReg

\* etcdRegistry::Unregister, line 49: stop_ = true
UnregisterEnter ==
    /\ regPc = "idle"
    /\ reg' = [reg EXCEPT !.stop_ = TRUE]
    /\ regPc' = "cancel"
    /\ regCall' = [op |-> "Unregister", ret |-> FALSE,
                   registered |-> reg.registered, lease |-> reg.lease_id_, prev |-> regCall.op, revoked |-> FALSE]
    /\ UNCHANGED <<etcd, kaPc>>

UnregisterStop ==
    /\ UnregisterEnter
    /\ UNCHANGED NotReg

\* lines 50-53: keep_alive_->Cancel(); keep_alive_.reset()
UnregisterCancel ==
    /\ regPc = "cancel"
    /\ reg' = [reg EXCEPT !.keep_alive_ = FALSE]
    /\ regPc' = "join"
    /\ UNCHANGED <<etcd, kaPc, regCall, NotReg>>

\* An Unregister that goes on to the revocation without joining keepalive_thread_.
UnregisterNoJoin ==
    /\ regPc = "join"
    /\ regPc' = "revoke"
    /\ UNCHANGED <<reg, kaPc, etcd, regCall, NotReg>>

\* lines 54-56: join() returns once KeepAlive() has returned
UnregisterJoin ==
    /\ regPc = "join"
    /\ IF reg.joinable
       THEN /\ kaPc = "done"
            /\ reg' = [reg EXCEPT !.joinable = FALSE]
            /\ kaPc' = "none"
       ELSE UNCHANGED <<reg, kaPc>>
    /\ regPc' = "revoke"
    /\ UNCHANGED <<etcd, regCall, NotReg>>

\* lines 57-65: leaserevoke(lease_id_), which the server may refuse, and
\* lease_id_ = 0 either way
UnregisterRevoke(revokeOk) ==
    /\ regPc = "revoke"
    /\ IF reg.lease_id_ # 0
       THEN /\ etcd' = IF revokeOk THEN Revoked(etcd, reg.lease_id_) ELSE etcd
            /\ reg' = [reg EXCEPT !.lease_id_ = 0, !.registered = FALSE]
       ELSE /\ reg' = [reg EXCEPT !.registered = FALSE]
            /\ UNCHANGED etcd
    /\ regPc' = "idle"
    /\ regCall' = [regCall EXCEPT !.ret = TRUE, !.revoked = (reg.lease_id_ # 0)]
    /\ UNCHANGED <<kaPc, NotReg>>

\* etcdRegistry::~etcdRegistry() = default: the members are destroyed, nothing
\* else runs.  Destroying a joinable std::thread is std::terminate.
Destroy ==
    /\ regPc = "idle"
    /\ regPc' = IF reg.joinable THEN "terminated" ELSE "gone"
    /\ reg' = [reg EXCEPT !.keep_alive_ = FALSE]
    /\ regCall' = [op |-> "Destroy", ret |-> ~reg.joinable,
                   registered |-> reg.registered, lease |-> reg.lease_id_, prev |-> regCall.op, revoked |-> FALSE]
    /\ UNCHANGED <<etcd, kaPc, NotReg>>

ProcessRuns == regPc \notin {"none", "terminated"}

\* etcdRegistry::KeepAlive, line 69: while (!stop_)
KaWhile ==
    /\ ProcessRuns
    /\ kaPc = "while"
    /\ kaPc' = IF reg.stop_ THEN "done" ELSE "if"
    /\ UNCHANGED <<reg, etcd, regPc, regCall, NotReg>>

\* line 70: if (keep_alive_)
KaIf ==
    /\ ProcessRuns
    /\ kaPc = "if"
    /\ kaPc' = IF reg.keep_alive_ THEN "check" ELSE "sleep"
    /\ UNCHANGED <<reg, etcd, regPc, regCall, NotReg>>

\* lines 71-77: keep_alive_->Check() returns or throws; a throw leaves the
\* loop.  When Unregister has reset keep_alive_ since line 70 the call goes
\* through a null pointer: the process dies, or the call happens to go either way.
KaCheck(throws) ==
    /\ ProcessRuns
    /\ kaPc = "check"
    /\ \/ /\ kaPc' = IF throws THEN "done" ELSE "sleep"
          /\ UNCHANGED regPc
       \/ /\ ~reg.keep_alive_
          /\ regPc' = "terminated"
          /\ UNCHANGED kaPc
    /\ UNCHANGED <<reg, etcd, regCall, NotReg>>

\* line 79: sleep_for(5 s)
KaSleep ==
    /\ ProcessRuns
    /\ kaPc = "sleep"
    /\ kaPc' = "while"
    /\ UNCHANGED <<reg, etcd, regPc, regCall, NotReg>>

RegNext ==
    \/ \E leaseOk \in BOOLEAN, putOk \in BOOLEAN : RegisterService(leaseOk, putOk)
    \/ UnregisterStop
    \/ UnregisterCancel
    \/ UnregisterJoin
    \/ \E revokeOk \in BOOLEAN : UnregisterRevoke(revokeOk)
    \/ Destroy
    \/ \E throws \in BOOLEAN : KaCheck(throws)
    \/ KaWhile
    \/ KaIf
    \/ KaSleep

\* ------------------------------------------------------------- PeerPicker
Addrs == 1..NumAddrs

\* The events of one watcher response.
Events == [type : {"PUT", "DELETE"}, addr : Addrs]

RECURSIVE SeqsUpTo(_, _)
SeqsUpTo(S, n) ==
    IF n = 0 THEN {<< >>}
    ELSE LET shorter == SeqsUpTo(S, n - 1)
         IN  shorter \cup {Append(q, x) : q \in {r \in shorter : Len(r) = n - 1}, x \in S}

Batches == SeqsUpTo(Events, MaxEvents)

\* The listings of ls(): each registered address at most once.
Listings == {q \in SeqsUpTo(Addrs, NumAddrs) : \A i, j \in 1..Len(q) : i # j => q[i] # q[j]}

NoEvent == [type |-> "none", addr |-> 0]

\* A PeerPicker before FetchAllServices: mtx is free, writer is the thread that
\* owns it exclusively ("" for none), readers the number of shared owners.
NewPicker == [peers |-> {}, hash_ring |-> {}, writer |-> "", readers |-> 0]

\* op is the function the membership thread is in, todo the events it has
\* still to handle, last the event it took last, built that the constructor
\* has returned.
NewMember == [pc |-> "new", op |-> "none", todo |-> << >>, last |-> NoEvent, built |-> FALSE]

NewReader == [pc |-> "idle", ret |-> 0]

PickIdle ==
    /\ picker = NewPicker
    /\ member = [NewMember EXCEPT !.pc = "none"]
    /\ reader = NewReader

PickInit ==
    /\ picker = NewPicker
    /\ member = NewMember
    /\ reader = NewReader

NotPick == <<sfVars, engVars, grpVars, arcVars, hashVars, oldFarVars, concVars, dirVars, srvVars, valVars, fwdVars, gwVars>>

\* mtx.lock() can return: nobody owns mtx in any mode.
MtxFree(p) == p.writer = "" /\ p.readers = 0

\* ConsistentHash::AddNode, ConsistentHash::RemoveNode: membership of the ring.
AddNode(ring, addr) == ring \cup {addr}

RemoveNode(ring, addr) == ring \ {addr}

\* PeerPicker::Set(addr) called by thread self.  lock() on a std::shared_mutex
\* the caller already owns is undefined: the builds either block for ever or
\* throw std::system_error out of lock(); `how` is which.
PickerSet(p, addr, self, how) ==
    IF p.writer = self THEN [c |-> p, outcome |-> how]
    ELSE [c |-> [p EXCEPT !.peers = @ \cup {addr}, !.hash_ring = AddNode(@, addr)],
          outcome |-> "returned"]

\* PeerPicker::Remove(addr) called by thread self.
PickerRemove(p, addr, self, how) ==
    IF p.writer = self THEN [c |-> p, outcome |-> how]
    ELSE [c |-> [p EXCEPT !.peers = @ \ {addr}, !.hash_ring = RemoveNode(@, addr)],
          outcome |-> "returned"]

\* PeerPicker::FetchAllServices, lines 87-95: lock_guard, ls(), and the early
\* return when the listing failed (the constructor then throws).
FetchAllServices(ok, kvs) ==
    /\ member.pc = "new"
    /\ MtxFree(picker)
    /\ IF ok
       THEN /\ picker' = [picker EXCEPT !.writer = "member"]
            /\ member' = [member EXCEPT !.pc = "loop", !.op = "fetch",
                                        !.todo = [i \in 1..Len(kvs) |-> [type |-> "PUT", addr |-> kvs[i]]]]
       ELSE /\ member' = [member EXCEPT !.pc = "failed", !.op = "fetch"]
            /\ UNCHANGED picker
    /\ UNCHANGED <<reader, NotPick>>

\* PeerPicker::HandleEvents, lines 64-68: lock_guard and the early return.
HandleEvents(ok, batch) ==
    /\ member.pc = "idle"
    /\ MtxFree(picker)
    /\ IF ok
       THEN /\ picker' = [picker EXCEPT !.writer = "member"]
            /\ member' = [member EXCEPT !.pc = "loop", !.op = "events", !.todo = batch,
                                        !.last = NoEvent]
       ELSE /\ member' = [member EXCEPT !.op = "events", !.todo = << >>, !.last = NoEvent]
            /\ UNCHANGED picker
    /\ UNCHANGED <<reader, NotPick>>

\* One round of the for loop of HandleEvents or FetchAllServices: Set(addr) or
\* Remove(addr) for the next event.  When the call does not return, the
\* thread stays blocked inside it ("hung"), or the exception leaves the
\* function and the lock_guard releases mtx on the way out ("threw").
LoopEvent(how) ==
    /\ member.pc = "loop"
    /\ member.todo # << >>
    /\ LET e == Head(member.todo)
           r == IF e.type = "PUT" THEN PickerSet(picker, e.addr, "member", how)
                ELSE PickerRemove(picker, e.addr, "member", how)
       IN  /\ member' = [member EXCEPT !.todo = Tail(@), !.last = e,
                                       !.pc = CASE r.outcome = "returned" -> "loop"
                                                [] r.outcome = "blocks" -> "hung"
                                                [] OTHER -> "threw"]
           /\ picker' = IF r.outcome = "throws" THEN [r.c EXCEPT !.writer = ""] ELSE r.c
    /\ UNCHANGED <<reader, NotPick>>

\* The loop is over: the function returns and the lock_guard releases mtx.
\* After FetchAllServices the constructor starts the watcher and returns.
LoopEnd ==
    /\ member.pc = "loop"
    /\ member.todo = << >>
    /\ picker' = [picker EXCEPT !.writer = ""]
    /\ member' = [member EXCEPT !.pc = "idle", !.built = TRUE]
    /\ UNCHANGED <<reader, NotPick>>

\* PeerPicker::PickPeer, line 35: std::shared_lock lock(mtx)
PickPeerLock ==
    /\ member.built
    /\ reader.pc = "idle"
    /\ picker.writer = ""
    /\ picker' = [picker EXCEPT !.readers = @ + 1]
    /\ reader' = [reader EXCEPT !.pc = "locked"]
    /\ UNCHANGED <<member, NotPick>>

\* lines 36-41: the peer of the node hash_ring.Get(key) names (0: nullptr),
\* and the shared_lock is released.
PickPeerReturn ==
    /\ reader.pc = "locked"
    /\ \E a \in (IF picker.hash_ring = {} THEN {0} ELSE picker.hash_ring) :
           reader' = [pc |-> "idle", ret |-> IF a \in picker.peers THEN a ELSE 0]
    /\ picker' = [picker EXCEPT !.readers = @ - 1]
    /\ UNCHANGED <<member, NotPick>>

PickNext ==
    \/ \E ok \in BOOLEAN, kvs \in Listings : FetchAllServices(ok, kvs)
    \/ \E ok \in BOOLEAN, batch \in Batches : HandleEvents(ok, batch)
    \/ \E how \in {"blocks", "throws"} : LoopEvent(how)
    \/ LoopEnd
    \/ PickPeerLock
    \/ PickPeerReturn

\* ------------------------------------------- LruK shared between threads
\* LruK::put and LruK::get take no lock of their own: each call they make on
\* the hot stage (the base Lru) or on coldCache locks that object's mutex_ for
\* the length of that one call.  A thread's pc is the line of LruK it is at.
ConcKeys == 1..NumConcKeys

NoCall == [pc |-> "idle", op |-> "none", key |-> 0, val |-> 0, KeyFreq |-> 0, v |-> 0, ret |-> 0]

ConcIdle ==
    /\ kthr = [t \in Threads |-> NoCall]
    /\ kstart = [e |-> NewLruK(1, 1, 1), n |-> 0]

\* LruK<int, int> lruK(cap, coldCacheSize, kVal), no thread started yet.
ConcInit ==
    /\ EngInit
    /\ kind = "LruK"
    /\ kthr = [t \in Threads |-> NoCall]
    /\ kstart = [e |-> lruk, n |-> 0]

NotConc == <<sfVars, kind, lru, lfu, lastOp, evicted, oldest, recency, streak, grpVars, arcVars, hashVars, oldFarVars, pickVars, dirVars, srvVars, valVars, fwdVars, gwVars>>

ConcAlive == kind = "LruK" /\ ~LruKCrashed(lruk)

NoneStarted == \A t \in Threads : kthr[t].pc = "idle"

\* A call made before the threads are started: nothing runs beside it.
SetupPut(k, v) ==
    /\ ConcAlive /\ NoneStarted
    /\ kstart.n < MaxSetup
    /\ lruk' = LruKPut(lruk, k, v)
    /\ kstart' = [e |-> lruk', n |-> kstart.n + 1]
    /\ UNCHANGED <<kthr, NotConc>>

SetupGet(k) ==
    /\ ConcAlive /\ NoneStarted
    /\ kstart.n < MaxSetup
    /\ lruk' = LruKGet(lruk, k)
    /\ kstart' = [e |-> lruk', n |-> kstart.n + 1]
    /\ UNCHANGED <<kthr, NotConc>>

\* workload(): cache.put(key, value), line 174
ConcPut(t, k, v) ==
    /\ ConcAlive
    /\ kthr[t].pc = "idle"
    /\ kthr' = [kthr EXCEPT ![t] = [NoCall EXCEPT !.pc = "175", !.op = "put", !.key = k, !.val = v]]
    /\ UNCHANGED <<lruk, kstart, NotConc>>

\* workload(): cache.get(key), line 195
ConcGet(t, k) ==
    /\ ConcAlive
    /\ kthr[t].pc = "idle"
    /\ kthr' = [kthr EXCEPT ![t] = [NoCall EXCEPT !.pc = "196", !.op = "get", !.key = k]]
    /\ UNCHANGED <<lruk, kstart, NotConc>>

At(t, line) == ConcAlive /\ kthr[t].pc = line

Goto(t, line) == kthr' = [kthr EXCEPT ![t].pc = line]

\* put, line 175: if (Lru::contains(key))
Put175(t) ==
    /\ At(t, "175")
    /\ Goto(t, IF LruContains(lruk.hot, kthr[t].key) THEN "176" ELSE "179")
    /\ UNCHANGED <<lruk, kstart, NotConc>>

\* put, lines 176-177: Lru::put(key, value); return
Put176(t) ==
    /\ At(t, "176")
    /\ lruk' = [lruk EXCEPT !.hot = LruPut(@, kthr[t].key, kthr[t].val)]
    /\ Goto(t, "done")
    /\ UNCHANGED <<kstart, NotConc>>

\* put, lines 179-180: KeyFreq = coldCache->getFrequency(key) and the test
Put179(t) ==
    /\ At(t, "179")
    /\ LET f == LruGetFrequency(lruk.cold, kthr[t].key)
       IN  kthr' = [kthr EXCEPT ![t].KeyFreq = f,
                                ![t].pc = IF f >= lruk.promotionThresholds THEN "181" ELSE "185"]
    /\ UNCHANGED <<lruk, kstart, NotConc>>

\* put, line 181: coldCache->remove(key)
Put181(t) ==
    /\ At(t, "181")
    /\ lruk' = [lruk EXCEPT !.cold = LruRemove(@, kthr[t].key)]
    /\ Goto(t, "182")
    /\ UNCHANGED <<kstart, NotConc>>

\* put, line 182: Lru::put(key, value)
Put182(t) ==
    /\ At(t, "182")
    /\ lruk' = [lruk EXCEPT !.hot = LruPut(@, kthr[t].key, kthr[t].val)]
    /\ Goto(t, "done")
    /\ UNCHANGED <<kstart, NotConc>>

\* put, line 185: coldCache->put(key, value)
Put185(t) ==
    /\ At(t, "185")
    /\ lruk' = [lruk EXCEPT !.cold = LruPut(@, kthr[t].key, kthr[t].val)]
    /\ Goto(t, "186")
    /\ UNCHANGED <<kstart, NotConc>>

\* put, line 186: coldCache->setFrequency(key, KeyFreq + 1)
Put186(t) ==
    /\ At(t, "186")
    /\ lruk' = [lruk EXCEPT !.cold = LruSetFrequency(@, kthr[t].key, kthr[t].KeyFreq + 1)]
    /\ Goto(t, "done")
    /\ UNCHANGED <<kstart, NotConc>>

\* get, line 196: if (Lru::contains(key))
Get196(t) ==
    /\ At(t, "196")
    /\ Goto(t, IF LruContains(lruk.hot, kthr[t].key) THEN "197" ELSE "198")
    /\ UNCHANGED <<lruk, kstart, NotConc>>

\* get, line 197: return Lru::get(key)
Get197(t) ==
    /\ At(t, "197")
    /\ lruk' = [lruk EXCEPT !.hot = LruGet(@, kthr[t].key)]
    /\ kthr' = [kthr EXCEPT ![t].ret = LruGetValue(lruk.hot, kthr[t].key), ![t].pc = "done"]
    /\ UNCHANGED <<kstart, NotConc>>

\* get, line 198: else if (coldCache->contains(key)); otherwise line 210
Get198(t) ==
    /\ At(t, "198")
    /\ IF LruContains(lruk.cold, kthr[t].key) THEN Goto(t, "199")
       ELSE kthr' = [kthr EXCEPT ![t].ret = DefaultValue, ![t].pc = "done"]
    /\ UNCHANGED <<lruk, kstart, NotConc>>

\* get, line 199: keyFreq = coldCache->getFrequency(key)
Get199(t) ==
    /\ At(t, "199")
    /\ kthr' = [kthr EXCEPT ![t].KeyFreq = LruGetFrequency(lruk.cold, kthr[t].key), ![t].pc = "200"]
    /\ UNCHANGED <<lruk, kstart, NotConc>>

\* get, lines 200-201: val = coldCache->get(key) and the test
Get200(t) ==
    /\ At(t, "200")
    /\ lruk' = [lruk EXCEPT !.cold = LruGet(@, kthr[t].key)]
    /\ kthr' = [kthr EXCEPT ![t].v = LruGetValue(lruk.cold, kthr[t].key),
                            ![t].pc = IF kthr[t].KeyFreq >= lruk.promotionThresholds
                                      THEN "202" ELSE "206"]
    /\ UNCHANGED <<kstart, NotConc>>

\* get, line 202: coldCache->remove(key)
Get202(t) ==
    /\ At(t, "202")
    /\ lruk' = [lruk EXCEPT !.cold = LruRemove(@, kthr[t].key)]
    /\ Goto(t, "203")
    /\ UNCHANGED <<kstart, NotConc>>

\* get, line 203: Lru::put(key, val)
Get203(t) ==
    /\ At(t, "203")
    /\ lruk' = [lruk EXCEPT !.hot = LruPut(@, kthr[t].key, kthr[t].v)]
    /\ Goto(t, "204")
    /\ UNCHANGED <<kstart, NotConc>>

\* get, line 204: return Lru::get(key)
Get204(t) ==
    /\ At(t, "204")
    /\ lruk' = [lruk EXCEPT !.hot = LruGet(@, kthr[t].key)]
    /\ kthr' = [kthr EXCEPT ![t].ret = LruGetValue(lruk.hot, kthr[t].key), ![t].pc = "done"]
    /\ UNCHANGED <<kstart, NotConc>>

\* get, lines 206-207: coldCache->setFrequency(key, keyFreq + 1); return val
Get206(t) ==
    /\ At(t, "206")
    /\ lruk' = [lruk EXCEPT !.cold = LruSetFrequency(@, kthr[t].key, kthr[t].KeyFreq + 1)]
    /\ kthr' = [kthr EXCEPT ![t].ret = kthr[t].v, ![t].pc = "done"]
    /\ UNCHANGED <<kstart, NotConc>>

ConcNext ==
    \/ \E k \in ConcKeys, v \in Vals : SetupPut(k, v)
    \/ \E k \in ConcKeys : SetupGet(k)
    \/ \E t \in Threads, k \in ConcKeys, v \in Vals : ConcPut(t, k, v)
    \/ \E t \in Threads, k \in ConcKeys : ConcGet(t, k)
    \/ \E t \in Threads : Put175(t)
    \/ \E t \in Threads : Put176(t)
    \/ \E t \in Threads : Put179(t)
    \/ \E t \in Threads : Put181(t)
    \/ \E t \in Threads : Put182(t)
    \/ \E t \in Threads : Put185(t)
    \/ \E t \in Threads : Put186(t)
    \/ \E t \in Threads : Get196(t)
    \/ \E t \in Threads : Get197(t)
    \/ \E t \in Threads : Get198(t)
    \/ \E t \in Threads : Get199(t)
    \/ \E t \in Threads : Get200(t)
    \/ \E t \in Threads : Get202(t)
    \/ \E t \in Threads : Get203(t)
    \/ \E t \in Threads : Get204(t)
    \/ \E t \in Threads : Get206(t)

\* ------------------------------------------- the registry of cache groups
GroupNames == 1..NumGroups

NoGroupCall == [pc |-> "idle", name |-> 0, ret |-> "none"]

DirIdle ==
    /\ cacheGroups = {}
    /\ cacheGroupsMutex = 0
    /\ gthr = [t \in Threads |-> NoGroupCall]
    /\ made = [n \in GroupNames |-> 0]

\* The globals of cachegroup.h, lines 26-27, at program start.
DirInit ==
    /\ cacheGroups = {}
    /\ cacheGroupsMutex = 0
    /\ gthr = [t \in Threads |-> NoGroupCall]
    /\ made = [n \in GroupNames |-> 0]

NotDir == <<sfVars, engVars, grpVars, arcVars, hashVars, oldFarVars, pickVars, concVars, srvVars, valVars, fwdVars, gwVars>>

DirRuns == \A t \in Threads : gthr[t].ret # "crashed"

\* CreateCacheGroup, line 115: std::lock_guard<std::mutex> lock(cacheGroupsMutex)
CreateLock(t, name) ==
    /\ DirRuns
    /\ gthr[t].pc = "idle"
    /\ cacheGroupsMutex = 0
    /\ cacheGroupsMutex' = t
    /\ gthr' = [gthr EXCEPT ![t] = [pc |-> "116", name |-> name, ret |-> "none"]]
    /\ UNCHANGED <<cacheGroups, made, NotDir>>

\* lines 116-119: find(groupName); the existing group is returned
CreateFind(t) ==
    /\ DirRuns
    /\ gthr[t].pc = "116"
    /\ IF gthr[t].name \in cacheGroups
       THEN /\ gthr' = [gthr EXCEPT ![t].pc = "idle", ![t].ret = "existing"]
            /\ cacheGroupsMutex' = 0
       ELSE /\ gthr' = [gthr EXCEPT ![t].pc = "122"]
            /\ UNCHANGED cacheGroupsMutex
    /\ UNCHANGED <<cacheGroups, made, NotDir>>

\* line 122: the CacheGroup is constructed; its PeerPicker may throw, which
\* leaves CreateCacheGroup and releases the lock_guard
CreateConstruct(t, ok) ==
    /\ DirRuns
    /\ gthr[t].pc = "122"
    /\ IF ok
       THEN /\ gthr' = [gthr EXCEPT ![t].pc = "121"]
            /\ UNCHANGED cacheGroupsMutex
       ELSE /\ gthr' = [gthr EXCEPT ![t].pc = "idle", ![t].ret = "threw"]
            /\ cacheGroupsMutex' = 0
    /\ UNCHANGED <<cacheGroups, made, NotDir>>

\* lines 121-123: emplace() puts the group in the map, and the function returns
CreateEmplace(t) ==
    /\ DirRuns
    /\ gthr[t].pc = "121"
    /\ cacheGroups' = cacheGroups \cup {gthr[t].name}
    /\ made' = [made EXCEPT ![gthr[t].name] = @ + 1]
    /\ gthr' = [gthr EXCEPT ![t].pc = "idle", ![t].ret = "created"]
    /\ cacheGroupsMutex' = 0
    /\ UNCHANGED NotDir

\* GetCacheGroup, line 133: `std::shared_mutex lock(cacheGroupsMutex);` names a
\* new mutex object; nothing is locked and cacheGroupsMutex is not touched.
GetDeclare(t, name) ==
    /\ DirRuns
    /\ gthr[t].pc = "idle"
    /\ gthr' = [gthr EXCEPT ![t] = [pc |-> "134", name |-> name, ret |-> "none"]]
    /\ UNCHANGED <<cacheGroups, cacheGroupsMutex, made, NotDir>>

\* The threads whose emplace() is changing the map.
Emplacing == {u \in Threads : gthr[u].pc = "121"}

\* lines 134-138: find(groupName).  A find that runs while another thread's
\* emplace changes the map is a data race: it may find the group, miss it, or
\* fault inside the map.
GetFind(t, raced) ==
    /\ DirRuns
    /\ gthr[t].pc = "134"
    /\ IF Emplacing \ {t} = {}
       THEN /\ raced = "found"
            /\ gthr' = [gthr EXCEPT ![t].pc = "idle",
                                    ![t].ret = IF gthr[t].name \in cacheGroups
                                               THEN "found" ELSE "nullptr"]
       ELSE gthr' = [gthr EXCEPT ![t].pc = "idle", ![t].ret = raced]
    /\ UNCHANGED <<cacheGroups, cacheGroupsMutex, made, NotDir>>

DirNext ==
    \/ \E t \in Threads, name \in GroupNames : CreateLock(t, name)
    \/ \E t \in Threads : CreateFind(t)
    \/ \E t \in Threads, ok \in BOOLEAN : CreateConstruct(t, ok)
    \/ \E t \in Threads : CreateEmplace(t)
    \/ \E t \in Threads, name \in GroupNames : GetDeclare(t, name)
    \/ \E t \in Threads, raced \in {"found", "nullptr", "crashed"} : GetFind(t, raced)

\* ------------------------------------------------------------ CacheServer
\* A CacheServer whose constructor has not yet registered: server_ is null (up
\* is FALSE); stops counts the calls of Stop.
NewServer == [pc |-> "new", up |-> FALSE, stops |-> 0]

SrvIdle == server = [NewServer EXCEPT !.pc = "none"]

SrvInit == RegInit /\ server = NewServer

NotSrv == <<sfVars, engVars, grpVars, arcVars, hashVars, shardVars, pickVars, concVars, dirVars, valVars, fwdVars, gwVars>>

\* CacheServer::CacheServer, lines 14-16: the registry is made and Register called.
ServerRegister(leaseOk, putOk) ==
    /\ server.pc = "new"
    /\ regCall.op = "none"
    /\ RegisterService(leaseOk, putOk)

\* lines 16-20: the constructor returns, or throws when Register returned false.
ServerMade ==
    /\ server.pc = "new"
    /\ regCall.op = "Register"
    /\ regPc = "idle"
    /\ server' = [server EXCEPT !.pc = IF regCall.ret THEN "made" ELSE "threw"]
    /\ UNCHANGED <<regVars, NotSrv>>

\* CacheServer::Start, lines 24-30: server_ = builder.BuildAndStart(), called
\* between calls of Stop
ServerStart ==
    /\ server.pc = "made"
    /\ ~server.up
    /\ ProcessRuns
    /\ server' = [server EXCEPT !.up = TRUE]
    /\ UNCHANGED <<regVars, NotSrv>>

\* CacheServer::Stop, lines 38-41: server_->Shutdown() when there is a server_
StopShutdown ==
    /\ server.pc = "made"
    /\ server.stops < MaxStops
    /\ ProcessRuns
    /\ server' = [pc |-> "42", up |-> FALSE, stops |-> server.stops + 1]
    /\ UNCHANGED <<regVars, NotSrv>>

\* lines 42-43: etcd_registry_->Unregister() is entered
StopUnregister ==
    /\ server.pc = "42"
    /\ UnregisterEnter
    /\ server' = [server EXCEPT !.pc = "43"]
    /\ UNCHANGED NotSrv

\* lines 43-46: Unregister has returned, and Stop returns
StopReturn ==
    /\ server.pc = "43"
    /\ regPc = "idle"
    /\ server' = [server EXCEPT !.pc = "made"]
    /\ UNCHANGED <<regVars, NotSrv>>

\* The etcd server: a lease that is not refreshed within its 10 s (line 22,
\* leasegrant(10)) expires, and the key attached to it goes with it.
LeaseExpire ==
    /\ server.pc \notin {"none", "new"}
    /\ \E id \in etcd.live : etcd' = Revoked(etcd, id)
    /\ UNCHANGED <<reg, regPc, kaPc, regCall, server, NotSrv>>

SrvNext ==
    \/ LeaseExpire
    \/ \E leaseOk \in BOOLEAN, putOk \in BOOLEAN : ServerRegister(leaseOk, putOk)
    \/ ServerMade
    \/ ServerStart
    \/ StopShutdown
    \/ StopUnregister
    \/ UnregisterCancel
    \/ UnregisterJoin
    \/ \E revokeOk \in BOOLEAN : UnregisterRevoke(revokeOk)
    \/ StopReturn
    \/ \E throws \in BOOLEAN : KaCheck(throws)
    \/ KaWhile
    \/ KaIf
    \/ KaSleep

\* ------------------------------------------ Arc with distinguishable values
ArcKeys == 1..NumArcKeys

ArcVals == 1..MaxArcVal

ValIdle == latest = [k \in ArcKeys |-> 0]

NotVal == <<sfVars, engVars, grpVars, hashVars, oldFarVars, pickVars, concVars, dirVars, srvVars, fwdVars, gwVars>>

\* arc.put(k, v), recorded as the most recent put of k
ArcPutLatest(k, v) ==
    /\ ArcAlive
    /\ \E n \in {ArcPut(arc, k, v)} :
           /\ ArcFreqRoom(n)
           /\ arc' = n
    /\ arcCall' = [op |-> "put", key |-> k, val |-> v, hit |-> FALSE, was |-> NoArcCall.was]
    /\ latest' = [latest EXCEPT ![k] = v]
    /\ UNCHANGED NotVal

\* arc.get(k)
ArcGetLatest(k) ==
    /\ ArcAlive
    /\ \E g \in {ArcGet(arc, k)} :
           /\ ArcFreqRoom(g.c)
           /\ arc' = g.c
           /\ arcCall' = [op |-> "get", key |-> k, val |-> g.value, hit |-> g.hit,
                          was |-> NoArcCall.was]
    /\ UNCHANGED <<latest, NotVal>>

ValNext ==
    \E k \in ArcKeys :
        \/ \E v \in ArcVals : ArcPutLatest(k, v)
        \/ ArcGetLatest(k)

\* ------------------------------------------- Set and Delete between nodes
\* One key of one group.  chain is the stack of CacheServer handlers that are
\* running for the request, the outermost first: each is [node, sent], sent
\* meaning that its BoardCast has finished.  rpcs counts the peer RPCs the
\* request has caused, applied is the nodes whose cache_ has taken it.
NoRequest == [op |-> "none", chain |-> << >>, rpcs |-> 0, applied |-> {}]

FwdIdle ==
    /\ ringView = [n \in Addrs |-> 0]
    /\ fwd = NoRequest

\* Every node has the view its own PeerPicker has built.
FwdInit ==
    /\ ringView \in [Addrs -> Addrs \cup {0}]
    /\ fwd = NoRequest

NotFwd == <<sfVars, engVars, grpVars, arcVars, hashVars, oldFarVars, pickVars, concVars, dirVars, srvVars, valVars, gwVars>>

\* PeerPicker::PickPeer at node n: the peer of the node the ring names, 0
\* (nullptr) when the ring is empty or names n itself.
PickPeer(n) == IF ringView[n] \in {0, n} THEN 0 ELSE ringView[n]

\* CacheServer::Set, CacheServer::Delete at node n up to the call of BoardCast:
\* group->Set(key, value, true) or group->Del(key, true), whoever sent the request.
Handler(n) == [node |-> n, sent |-> FALSE]

\* A Set or Delete of the gateway arrives at node n, which applies it.
ClientRequest(n, op) ==
    /\ fwd.chain = << >>
    /\ fwd' = [op |-> op, chain |-> <<Handler(n)>>, rpcs |-> 0, applied |-> {n}]
    /\ UNCHANGED <<ringView, NotFwd>>

\* BoardCast, lines 202-213, with a peer: peer->Set or peer->Del is an RPC that
\* the peer's CacheServer::Set or CacheServer::Delete handles.
BoardCastPeer ==
    /\ fwd.chain # << >>
    /\ LET top == fwd.chain[Len(fwd.chain)]
           p == PickPeer(top.node)
       IN  /\ ~top.sent
           /\ p # 0
           /\ fwd.rpcs < MaxRpcs
           /\ fwd' = [fwd EXCEPT !.chain = Append([@ EXCEPT ![Len(@)].sent = TRUE], Handler(p)),
                                 !.rpcs = @ + 1,
                                 !.applied = @ \cup {p}]
    /\ UNCHANGED <<ringView, NotFwd>>

\* BoardCast, lines 202-203, without a peer: nothing is sent.
BoardCastNone ==
    /\ fwd.chain # << >>
    /\ LET top == fwd.chain[Len(fwd.chain)]
       IN  /\ ~top.sent
           /\ PickPeer(top.node) = 0
           /\ fwd' = [fwd EXCEPT !.chain[Len(fwd.chain)].sent = TRUE]
    /\ UNCHANGED <<ringView, NotFwd>>

\* The handler returns grpc::Status::OK to its caller.
HandlerReturn ==
    /\ fwd.chain # << >>
    /\ fwd.chain[Len(fwd.chain)].sent
    /\ fwd' = [fwd EXCEPT !.chain = SubSeq(@, 1, Len(@) - 1)]
    /\ UNCHANGED <<ringView, NotFwd>>

\* PeerPicker::HandleEvents at node n: a membership event changes the node
\* that n's ring names for the key.
RingChange(n, o) ==
    /\ ringView[n] # o
    /\ ringView' = [ringView EXCEPT ![n] = o]
    /\ UNCHANGED <<fwd, NotFwd>>

FwdNext ==
    \/ \E n \in Addrs, op \in {"SET", "DELETE"} : ClientRequest(n, op)
    \/ BoardCastPeer
    \/ BoardCastNone
    \/ HandlerReturn
    \/ \E n \in Addrs, o \in Addrs \cup {0} : RingChange(n, o)

\* ------------------------------------------------------------ HttpGateway
\* ring is the nodes of consistent_hash_, pc where discovery_thread_ is;
\* polled says that the last ls() of the thread succeeded and seen is what it
\* listed; target is the node the last GetCacheNode since then chose, 0 for none.
NewGateway == [pc |-> "ls", ring |-> {}, polled |-> FALSE, seen |-> {}, target |-> 0]

GwIdle ==
    /\ coord = {}
    /\ gateway = [NewGateway EXCEPT !.pc = "none"]

GwInit ==
    /\ coord = {}
    /\ gateway = NewGateway

NotGw == <<sfVars, engVars, grpVars, arcVars, hashVars, oldFarVars, pickVars, concVars, dirVars, srvVars, valVars, fwdVars>>

\* etcdRegistry::Register of the cache node at address a: its key is put.
KeyPut(a) ==
    /\ gateway.pc # "none"
    /\ a \notin coord
    /\ coord' = coord \cup {a}
    /\ UNCHANGED <<gateway, NotGw>>

\* The lease of the node at address a is revoked or expires: its key is deleted.
KeyGone(a) ==
    /\ a \in coord
    /\ coord' = coord \ {a}
    /\ UNCHANGED <<gateway, NotGw>>

\* StartDiscovery, lines 151-169: one ls(prefix); when it succeeds every key
\* listed is given to consistent_hash_.Add, and nothing else is done to the ring.
Poll(ok) ==
    /\ gateway.pc = "ls"
    /\ gateway' = IF ok
                  THEN [pc |-> "sleep", ring |-> gateway.ring \cup coord, polled |-> TRUE,
                        seen |-> coord, target |-> 0]
                  ELSE [gateway EXCEPT !.pc = "sleep", !.polled = FALSE, !.target = 0]
    /\ UNCHANGED <<coord, NotGw>>

\* line 170: sleep_for(5 s), and the loop goes round
PollSleep ==
    /\ gateway.pc = "sleep"
    /\ gateway' = [gateway EXCEPT !.pc = "ls"]
    /\ UNCHANGED <<coord, NotGw>>

\* HttpGateway::GetCacheNode: consistent_hash_.Get(key) names a node of the
\* ring, which one depending on the key.
GetCacheNode(a) ==
    /\ gateway.pc # "none"
    /\ a \in gateway.ring
    /\ gateway' = [gateway EXCEPT !.target = a]
    /\ UNCHANGED <<coord, NotGw>>

GwNext ==
    \/ \E a \in Addrs : KeyPut(a)
    \/ \E a \in Addrs : KeyGone(a)
    \/ \E ok \in BOOLEAN : Poll(ok)
    \/ PollSleep
    \/ \E a \in Addrs : GetCacheNode(a)

MoreIdle == PickIdle /\ ConcIdle /\ DirIdle /\ SrvIdle /\ ValIdle /\ FwdIdle /\ GwIdle

FarIdle == ShardIdle /\ RegIdle /\ MoreIdle

\* ------------------------------------------------------------ CacheGroup
\* One CacheGroup object: cache_ is the variable lru, singleFlight_ the
\* variables of run().  Its keys are SfKeys.

NoLoad == [peer |-> FALSE, pv |-> Nullopt, handled |-> FALSE, hv |-> Nullopt, quiet |-> FALSE]

GrpIdle ==
    /\ overlap = [t \in Threads |-> {}]
    /\ didLoad = [t \in Threads |-> FALSE]
    /\ lastLoad = [t \in Threads |-> NoLoad]

\* The constructor: an empty local cache and an empty coalescer.
GrpInit ==
    /\ kind = "Group"
    /\ lru \in {NewLru(c) : c \in 1..MaxCap}
    /\ lruk = NewLruK(1, 1, 1)
    /\ lfu = NewLfu(1, FALSE, 0)
    /\ lastOp = NoOp
    /\ evicted = {}
    /\ oldest = 0
    /\ recency = << >>
    /\ streak = NoStreak
    /\ GrpIdle

\* A null dereference inside cache_ ends the process.
GroupAlive == kind = "Group" /\ ~lru.crashed

\* The threads inside Get(k) at this instant.
InGet(k) == {u \in Threads : pc[u] \notin {"idle", "returned", "raised"} /\ tkey[u] = k}

\* Get(key), lines 153-158: cache_->get(key); a value returns at once, the
\* default value (a miss) goes on to LoadFromPeer.
GroupGet(t, k) ==
    /\ GroupAlive
    /\ pc[t] = "idle"
    /\ SizeRoom(lru, k)
    /\ lru' = LruGet(lru, k)
    /\ Called("Get", k, 0)
    /\ tkey' = [tkey EXCEPT ![t] = k]
    /\ IF lru'.crashed THEN UNCHANGED <<pc, tres>>
       ELSE IF LruGetValue(lru, k) # DefaultValue
       THEN /\ pc' = [pc EXCEPT ![t] = "returned"]
            /\ tres' = [tres EXCEPT ![t] = LruGetValue(lru, k)]
       ELSE /\ pc' = [pc EXCEPT ![t] = "miss"]
            /\ UNCHANGED tres
    /\ overlap' = [u \in Threads |->
                      IF u = t THEN InGet(k) \ {t}
                      ELSE IF u \in InGet(k) THEN overlap[u] \cup {t}
                      ELSE overlap[u] \ {t}]
    /\ didLoad' = [didLoad EXCEPT ![t] = FALSE]
    /\ lastLoad' = [lastLoad EXCEPT ![t] = NoLoad]
    /\ UNCHANGED <<sfMap, promise, ttask, leader, loaded>>
    /\ UNCHANGED <<kind, lruk, lfu, evicted, oldest, recency, streak, arcVars, hashVars, farVars>>

\* A lambda that returns what the peer gave and never asks cacheMissHandler_.
LoadLambdaPeerOnly(peer, pv, hv) ==
    [value |-> IF peer THEN pv ELSE Nullopt, handled |-> FALSE]

\* The lambda of LoadFromPeer, lines 230-242: its value, and whether it called
\* cacheMissHandler_.
LoadLambda(peer, pv, hv) ==
    [value |-> IF ~peer THEN Nullopt ELSE IF pv # Nullopt THEN pv ELSE hv,
     handled |-> peer /\ pv = Nullopt]

\* The lambda of LoadFromPeer, lines 229-243, run by the leader.  PickPeer
\* gives a peer or nullptr; with a peer, peer->Get(key) gives pv, and when pv
\* is empty cacheMissHandler_(key) gives hv.  Without a peer nothing is asked
\* and the lambda's value is empty.
GroupLoad(t, peer, pv, hv) ==
    /\ GroupAlive
    /\ pc[t] = "func"
    /\ LET r == LoadLambda(peer, pv, hv).value
       IN  /\ tres' = [tres EXCEPT ![t] = r]
           /\ loaded' = [loaded EXCEPT ![ttask[t]] = r]
    /\ pc' = [pc EXCEPT ![t] = "publish"]
    /\ didLoad' = [didLoad EXCEPT ![t] = peer]
    /\ lastLoad' = [lastLoad EXCEPT ![t] = [peer |-> peer, pv |-> IF peer THEN pv ELSE Nullopt,
                                            handled |-> LoadLambda(peer, pv, hv).handled,
                                            hv |-> hv, quiet |-> TRUE]]
    /\ UNCHANGED <<sfMap, promise, tkey, ttask, leader, overlap, engVars, arcVars, hashVars, farVars>>

\* Set(key, value, needBoardcast): cache_->put(key, value); the broadcast
\* goes to a peer and leaves this node alone.
GroupSet(k, v) ==
    /\ GroupAlive
    /\ SizeRoom(lru, k)
    /\ lru' = LruPut(lru, k, v)
    /\ Called("Set", k, v)
    /\ lastLoad' = [t \in Threads |-> [lastLoad[t] EXCEPT !.quiet = FALSE]]
    /\ UNCHANGED <<kind, lruk, lfu, evicted, oldest, recency, streak>>
    /\ UNCHANGED <<sfVars, overlap, didLoad, arcVars, hashVars, farVars>>

\* Del(key, needBoardcast): cache_->remove(key)
GroupDel(k) ==
    /\ GroupAlive
    /\ lru' = LruRemove(lru, k)
    /\ Called("Del", k, 0)
    /\ lastLoad' = [t \in Threads |-> [lastLoad[t] EXCEPT !.quiet = FALSE]]
    /\ UNCHANGED <<kind, lruk, lfu, evicted, oldest, recency, streak>>
    /\ UNCHANGED <<sfVars, overlap, didLoad, arcVars, hashVars, farVars>>

GroupNext ==
    \/ \E t \in Threads, k \in SfKeys : GroupGet(t, k)
    \/ \E t \in Threads : GroupAlive /\ RunLeader(t, tkey[t], "miss")
    \/ \E t \in Threads : GroupAlive /\ RunWaiter(t, tkey[t], "miss")
    \/ \E t \in Threads, peer \in BOOLEAN, pv, hv \in {Nullopt} \cup Vals :
           GroupLoad(t, peer, pv, hv)
    \/ \E t \in Threads : GroupAlive /\ Publish(t)
    \/ \E t \in Threads : GroupAlive /\ Erase(t)
    \/ \E t \in Threads : GroupAlive /\ FutureGet(t)
    \/ \E t \in Threads : GroupAlive /\ SfLeave(t)
    \/ \E k \in SfKeys, v \in Vals : GroupSet(k, v)
    \/ \E k \in SfKeys : GroupDel(k)

vars == <<sfVars, engVars, grpVars, arcVars, hashVars, farVars>>

\* The engines, one object at a time, under any sequence of public calls.
Init == EngInit /\ SfInit /\ GrpIdle /\ ArcIdle /\ HashIdle /\ FarIdle

Spec == Init /\ [][EngNext]_vars

\* One engine class at a time.
InitLru == EngInit /\ SfInit /\ GrpIdle /\ ArcIdle /\ HashIdle /\ FarIdle /\ kind = "Lru"

SpecLru == InitLru /\ [][LruNext]_vars

InitLruK == EngInit /\ SfInit /\ GrpIdle /\ ArcIdle /\ HashIdle /\ FarIdle /\ kind = "LruK"

SpecLruK == InitLruK /\ [][LruKNext]_vars

InitLfu == EngInit /\ SfInit /\ GrpIdle /\ ArcIdle /\ HashIdle /\ FarIdle /\ kind \in {"Lfu", "AvgLfu"}

SpecLfu == InitLfu /\ [][LfuNext]_vars

\* The coalescer under any interleaving of run() calls.
InitSF == SfInit /\ EngIdle /\ GrpIdle /\ ArcIdle /\ HashIdle /\ FarIdle

SpecSF == InitSF /\ [][SfNext]_vars

\* One cache group under any interleaving of Get, Set and Del.
InitGroup == GrpInit /\ SfInit /\ ArcIdle /\ HashIdle /\ FarIdle

SpecGroup == InitGroup /\ [][GroupNext]_vars

\* One Arc object under any sequence of put and get.
InitArc == ArcInit /\ SfInit /\ GrpIdle /\ HashIdle /\ FarIdle

SpecArc == InitArc /\ [][ArcNext]_vars

\* One consistentHash object under any sequence of Add, Remove and Get.
InitHash == HashInit /\ EngIdle /\ SfInit /\ GrpIdle /\ ArcIdle /\ FarIdle

SpecHash == InitHash /\ [][HashNext]_vars

\* The constructors of the sharded wrappers, for every total capacity and
\* slice count.
InitShard == ShardInit /\ EngIdle /\ SfInit /\ GrpIdle /\ ArcIdle /\ HashIdle /\ RegIdle /\ MoreIdle

SpecShard == InitShard /\ [][ShardNext]_vars

\* One etcdRegistry, the thread that owns it and its keep-alive thread.
InitReg == RegInit /\ EngIdle /\ SfInit /\ GrpIdle /\ ArcIdle /\ HashIdle /\ ShardIdle /\ MoreIdle

SpecReg == InitReg /\ [][RegNext]_vars

\* Every object of the earlier sections at rest.
OldIdle == EngIdle /\ SfInit /\ GrpIdle /\ ArcIdle /\ HashIdle /\ ShardIdle /\ RegIdle

\* One LruK shared by threads that each make one call, as testLru's workload does.
InitConc == ConcInit /\ SfInit /\ GrpIdle /\ ArcIdle /\ HashIdle /\ ShardIdle /\ RegIdle /\ PickIdle /\ DirIdle /\ SrvIdle /\ ValIdle /\ FwdIdle /\ GwIdle

SpecConc == InitConc /\ [][ConcNext]_vars

\* Threads that create and look up cache groups by name.
InitDir == DirInit /\ OldIdle /\ PickIdle /\ ConcIdle /\ SrvIdle /\ ValIdle /\ FwdIdle /\ GwIdle

SpecDir == InitDir /\ [][DirNext]_vars

\* One CacheServer: its construction, Start and calls of Stop.
InitSrv == SrvInit /\ EngIdle /\ SfInit /\ GrpIdle /\ ArcIdle /\ HashIdle /\ ShardIdle /\ PickIdle /\ ConcIdle /\ DirIdle /\ ValIdle /\ FwdIdle /\ GwIdle

SpecSrv == InitSrv /\ [][SrvNext]_vars

\* One Arc under any sequence of put and get with values that differ.
InitVal == ArcInit /\ ValIdle /\ SfInit /\ GrpIdle /\ HashIdle /\ ShardIdle /\ RegIdle /\ PickIdle /\ ConcIdle /\ DirIdle /\ SrvIdle /\ FwdIdle /\ GwIdle

SpecVal == InitVal /\ [][ValNext]_vars

\* Cache nodes that pass a Set or Delete on to the node their ring names.
InitFwd == FwdInit /\ OldIdle /\ PickIdle /\ ConcIdle /\ DirIdle /\ SrvIdle /\ ValIdle /\ GwIdle

SpecFwd == InitFwd /\ [][FwdNext]_vars

\* The HTTP gateway, its discovery thread and the keys of the coordinator.
InitGw == GwInit /\ OldIdle /\ PickIdle /\ ConcIdle /\ DirIdle /\ SrvIdle /\ ValIdle /\ FwdIdle

SpecGw == InitGw /\ [][GwNext]_vars

\* One PeerPicker: its construction, the watcher's events and PickPeer calls.
InitPick == PickInit /\ OldIdle /\ ConcIdle /\ DirIdle /\ SrvIdle /\ ValIdle /\ FwdIdle /\ GwIdle

SpecPick == InitPick /\ [][PickNext]_vars

\* ------------------------------------------------------------- properties

\* C1: for every key, at most one thread is executing a loader for that key
\* at any instant, under any interleaving of run() calls.
C1_OneLoaderPerKey ==
    \A k \in SfKeys : Cardinality({t \in Threads : pc[t] = "func" /\ tkey[t] = k}) <= 1

\* C1's case: a loader is running for a key while another run() of that key
\* has found the pending task.
C1_LoaderAndWaiter ==
    \E t, u \in Threads : pc[t] = "func" /\ pc[u] = "wait" /\ tkey[t] = tkey[u]

\* C2: a run() that found a pending task never executes a loader, and returns
\* what the task's leader got from its loader; all the callers attached to one
\* task return the same value.
C2_WaitersShareLeaderResult ==
    /\ \A t \in Threads : pc[t] \in {"func", "publish", "relock"} => leader[t]
    /\ \A t \in Threads : pc[t] = "returned" => tres[t] = loaded[ttask[t]]
    /\ \A t, u \in Threads :
           (pc[t] = "returned" /\ pc[u] = "returned" /\ ttask[t] = ttask[u]) => tres[t] = tres[u]

\* C2's case: a waiter and the leader of one task have both returned, with a
\* value.
C2_WaiterReturnedValue ==
    \E t, u \in Threads :
        /\ pc[t] = "returned" /\ pc[u] = "returned"
        /\ leader[t] /\ ~leader[u]
        /\ ttask[t] = ttask[u]
        /\ tres[u] \in Vals

\* C3: of the Get calls for one key that overlap in time and miss the local
\* cache, at most one performs the load, and those that have returned return
\* one value.
C3_OneLoadPerOverlap ==
    \A t, u \in Threads :
        (t # u /\ u \in overlap[t] /\ tkey[t] = tkey[u]
               /\ ttask[t] # NoTask /\ ttask[u] # NoTask) =>
            /\ ~(didLoad[t] /\ didLoad[u])
            /\ (pc[t] = "returned" /\ pc[u] = "returned") => tres[t] = tres[u]

\* C4: when the leader's loader fails, by an absent result or by raising, the
\* waiters get that failure: the entry of the key is removed once the leader
\* is out of run(), and no waiter is left on a task whose loader raised.
C4_FailureReleasesKey ==
    /\ \A t \in Threads :
           (pc[t] = "returned" /\ tres[t] = Nullopt /\ ~leader[t]) => loaded[ttask[t]] = Nullopt
    /\ \A t \in Threads : pc[t] = "raised" => sfMap[tkey[t]] = NoTask
    /\ \A t \in Threads : pc[t] = "wait" => loaded[ttask[t]] # Raised

\* C5: whenever no run() call is in progress the registry holds no entry, so
\* the next run() of any key executes its own loader.
C5_IdleRegistryEmpty ==
    (\A t \in Threads : pc[t] = "idle") => \A k \in SfKeys : sfMap[k] = NoTask

\* The value a get(k) called now would return, and whether it would fault.
GetNow(k) ==
    CASE kind = "Lru" -> [val |-> LruGetValue(lru, k), crashed |-> LruGet(lru, k).crashed]
      [] kind = "LruK" -> [val |-> LruKGetValue(lruk, k), crashed |-> LruKCrashed(LruKGet(lruk, k))]
      [] OTHER -> [val |-> LfuGetValue(lfu, k), crashed |-> \E l \in LfuGet(lfu, k) : l.crashed]

\* C6: on every engine with a capacity of at least 1 and after any calls,
\* put(k, v) returns and a get(k) called next returns v.
C6_PutThenGet ==
    lastOp.op = "put" =>
        /\ ~EngCrashed
        /\ ~GetNow(lastOp.key).crashed
        /\ GetNow(lastOp.key).val = lastOp.val

\* C7: after remove(k) on the Lru, contains(k) is false and a lookup of k is a
\* miss.
C7_RemovedIsAbsent ==
    lastOp.op = "remove" =>
        /\ ~LruContains(lru, lastOp.key)
        /\ ~LruGet(lru, lastOp.key).crashed
        /\ LruGetValue(lru, lastOp.key) = DefaultValue

\* C8: no sequence of public calls on an engine with a capacity of at least 1
\* reaches an error state (the front of an empty list popped and used, a node
\* that is not in the list unlinked).
C8_NoErrorState == ~EngCrashed

\* C9: after every public call, the key-to-node map of the Lru, of the Lfu or
\* AvgLfu, and of each stage (hot, cold) of the LruK holds at most as many
\* keys as the capacity of that engine.
C9_MapWithinCapacity ==
    /\ Cardinality(DOMAIN lru.cacheMap) <= lru.capacity
    /\ Cardinality(DOMAIN lruk.hot.cacheMap) <= lruk.hot.capacity
    /\ Cardinality(DOMAIN lruk.cold.cacheMap) <= lruk.cold.capacity
    /\ Cardinality(DOMAIN lfu.mp) <= lfu.cap

\* C9's case: a put on a full Lru has evicted a key and left the map full.
C9_PutOnFullEvicted ==
    /\ kind = "Lru" /\ lastOp.op = "put"
    /\ evicted # {}
    /\ Cardinality(DOMAIN lru.cacheMap) = lru.capacity

\* C10: whenever a put on the Lru evicts, the evicted key is the resident key
\* whose last put or get is the oldest.
C10_EvictsLeastRecentlyUsed ==
    (lastOp.op = "put" /\ evicted # {}) => evicted = {oldest}

\* C10's case, the spec's example with one key less: with capacity 2,
\* put(1); put(2); get(1); put(3) evicts key 2 and keeps 1 and 3.
C10_RefreshedKeySurvives ==
    /\ lru.capacity = 2
    /\ lastOp = [op |-> "put", key |-> 3, val |-> 1]
    /\ evicted = {2}
    /\ lru.list = <<1, 3>>
    /\ DOMAIN lru.cacheMap = {1, 3}

\* C11: when a put of an absent key on a full Lfu evicts, the evicted key has
\* the lowest frequency of the resident keys and, of the keys with that
\* frequency, is the one that got it first.
C11_EvictsLeastFrequent ==
    (kind \in {"Lfu", "AvgLfu"} /\ lastOp.op = "put" /\ evicted # {}) => evicted = {oldest}

\* C11's case, the spec's example: with capacity 2,
\* put(1); put(2); get(1); get(1); put(3) evicts key 2 (frequency 1) and keeps
\* key 1 (frequency 3).
C11_FrequentKeySurvives ==
    /\ kind = "Lfu" /\ lfu.cap = 2
    /\ lastOp = [op |-> "put", key |-> 3, val |-> 1]
    /\ evicted = {2}
    /\ DOMAIN lfu.mp = {1, 3}
    /\ lfu.mp[1].freq = 3

\* The frequencies whose bucket list is not empty.
UsedFreqs == {f \in DOMAIN lfu.freqList : ~isEmpty(lfu.freqList[f])}

\* C12: after every public call on an Lfu or AvgLfu whose map is not empty,
\* minFreq is the smallest frequency with a non-empty bucket.
C12_MinFreqIsSmallestUsed ==
    (kind \in {"Lfu", "AvgLfu"} /\ DOMAIN lfu.mp # {}) =>
        /\ UsedFreqs # {}
        /\ lfu.minFreq = SetMin(UsedFreqs)

\* C12's case: a get has emptied the minimum bucket and minFreq has moved up.
C12_GetEmptiedMinBucket ==
    /\ kind \in {"Lfu", "AvgLfu"}
    /\ lastOp.op = "get"
    /\ lfu.minFreq > 1
    /\ isEmpty(lfu.freqList[1])

\* C13: a key that was in neither stage of an LruK with threshold K and has
\* then been put K times in succession is in the hot cache after the K-th put,
\* and a get of it called next is a hot hit that returns the value.
C13_PromotedAfterKPuts ==
    (kind = "LruK" /\ lastOp.op = "put" /\ streak.n = lruk.promotionThresholds) =>
        /\ ~LruKCrashed(lruk)
        /\ LruContains(lruk.hot, lastOp.key)
        /\ LruGetValue(lruk.hot, lastOp.key) = lastOp.val

\* C14: after every put or get on an LruK, no key is present in both the hot
\* cache and the cold cache.
C14_StagesDisjoint ==
    kind = "LruK" =>
        \A k \in Keys : ~(LruContains(lruk.hot, k) /\ LruContains(lruk.cold, k))

\* C15: initially and after every put or get on an Arc built with capacity C,
\* the capacity of the recency half plus the capacity of the frequency half is C.
C15_HalvesSumToCapacity ==
    kind = "Arc" => arc.lruCache.capacity + arc.lfuCache.capacity = arc.capacity

\* The keys each half holds live.
RLive == arc.lruCache.cacheMap
FLive == DOMAIN arc.lfuCache.mp

\* C16: after every put or get on an Arc built with capacity C, the live entries
\* of the recency half and of the frequency half are together at most C.
C16_LiveWithinCapacity ==
    kind = "Arc" => Cardinality(RLive) + Cardinality(FLive) <= arc.capacity

C18_ListsDisjoint ==
    kind = "Arc" =>
        /\ RLive \cap arc.lruCache.ghostMap = {}
        /\ RLive \cap FLive = {}
        /\ RLive \cap arc.lfuCache.ghostMap = {}
        /\ arc.lruCache.ghostMap \cap FLive = {}
        /\ arc.lruCache.ghostMap \cap arc.lfuCache.ghostMap = {}
        /\ FLive \cap arc.lfuCache.ghostMap = {}

\* C19: a get of a key that is in the recency ghost list while the frequency
\* half has a capacity above 1 adds one to the recency capacity, takes one from
\* the frequency capacity, removes the key from the recency ghost list and
\* has the key in the recency live list when it returns.
C19_GhostHitGrowsRecency ==
    (kind = "Arc" /\ arcCall.op = "get" /\ arcCall.was.rGhost /\ arcCall.was.pf > 1) =>
        /\ arc.lruCache.capacity = arcCall.was.pr + 1
        /\ arc.lfuCache.capacity = arcCall.was.pf - 1
        /\ arcCall.key \notin arc.lruCache.ghostMap
        /\ arcCall.key \in RLive

\* C20: when consistentHash::Add returns false, hashRing, hashToNode and
\* NodeToReplicaNum are exactly as they were when the call started.
C20_FailedAddChangesNothing ==
    (hashCall.op = "Add" /\ hashCall.ret = FALSE) =>
        /\ hashRing.hashRing = hashCall.was.hashRing
        /\ hashRing.hashToNode = hashCall.was.hashToNode
        /\ hashRing.NodeToReplicaNum = hashCall.was.NodeToReplicaNum

\* The positions of the ring array of c that hashToNode gives to node n.
Owned(c, n) ==
    {i \in 1..Len(c.hashRing) :
        c.hashRing[i] \in DOMAIN c.hashToNode /\ c.hashToNode[c.hashRing[i]] = n}

\* Every position of the ring array of c belongs to a node that
\* NodeToReplicaNum records.
AllOwnersRecorded(c) ==
    \A i \in 1..Len(c.hashRing) : \E n \in DOMAIN c.NodeToReplicaNum : i \in Owned(c, n)

\* C21: after any sequence of Add and Remove calls, successful or not, the
\* ring array is sorted, every position in it maps to a node that the
\* node-to-replica map records, and every recorded node owns exactly its
\* recorded number of positions.
C21_RingWellFormed ==
    /\ IsSorted(hashRing.hashRing)
    /\ AllOwnersRecorded(hashRing)
    /\ \A n \in DOMAIN hashRing.NodeToReplicaNum :
           Cardinality(Owned(hashRing, n)) = hashRing.NodeToReplicaNum[n]

JustLoaded ==
    {t \in Threads : /\ kind = "Group" /\ pc[t] = "returned" /\ leader[t]
                     /\ tres[t] # Nullopt /\ lastLoad[t].quiet}

\* C24: when a Get of a CacheGroup that missed locally has obtained a value v
\* from the peer or from the loader, cache_ holds v for the key, so that the
\* next Get of the key is a local hit.
C24_LoadedValueIsCached ==
    \A t \in JustLoaded : LruGetValue(lru, tkey[t]) = tres[t]

\* C25: when the lambda of LoadFromPeer ran without a peer (this node owns
\* the key), cacheMissHandler_ was called and its value is the result.
C25_OwnerCallsLoader ==
    \A t \in Threads :
        (kind = "Group" /\ pc[t] = "publish" /\ ~lastLoad[t].peer) =>
            /\ lastLoad[t].handled
            /\ tres[t] = lastLoad[t].hv

\* C26: after Set(k, v) has returned, with or without a broadcast, cache_
\* holds v for k, so that a Get(k) called next returns v from the local cache.
C26_SetThenGet ==
    (kind = "Group" /\ lastOp.op = "Set") =>
        /\ ~lru.crashed
        /\ LruGetValue(lru, lastOp.key) = lastOp.val

\* The least integer that is at least c / n.
CeilDiv(c, n) == (c + n - 1) \div n

\* C27: a sharded wrapper built with total capacity C >= 1 and N shards gives
\* every shard the capacity ceil(C / N), which is at least 1.
C27_ShardCapacityIsCeiling ==
    sharded.class # "none" =>
        \A i \in 1..sharded.sliceNum :
            /\ sharded.shards[i] = CeilDiv(sharded.capacity, sharded.sliceNum)
            /\ sharded.shards[i] >= 1

\* C28: when an etcdRegistry that has registered a service is destroyed, the
\* service is unregistered before the object is gone: the destruction completes
\* with the keep-alive thread stopped and joined and the lease revoked.
C28_DestroyUnregisters ==
    (regCall.op = "Destroy" /\ regCall.registered) =>
        /\ regPc = "gone"
        /\ ~reg.joinable
        /\ kaPc = "none"
        /\ regCall.lease \notin etcd.live

RGhost == arc.lruCache.ghostMap
FGhost == arc.lfuCache.ghostMap

\* C29: after every put or get on an Arc, each of the four lists holds at most
\* as many keys as its half's capacity is at that moment: |R.live| <= Pr,
\* |F.live| <= Pf, |R.ghost| <= Pr, |F.ghost| <= Pf.
C29_ListsWithinHalfCapacity ==
    kind = "Arc" =>
        /\ Cardinality(RLive) <= arc.lruCache.capacity
        /\ Cardinality(FLive) <= arc.lfuCache.capacity
        /\ Cardinality(RGhost) <= arc.lruCache.capacity
        /\ Cardinality(FGhost) <= arc.lfuCache.capacity

\* C30: when a put or a get finds its key in R.live (and in no ghost list) and
\* raises the key's access count to the promotion threshold, the key has moved:
\* after the call it is in F.live and no longer in R.live.
C30_PromotionMovesKey ==
    (/\ kind = "Arc"
     /\ arcCall.op \in {"put", "get"}
     /\ arcCall.was.rLive
     /\ ~arcCall.was.rGhost
     /\ ~arcCall.was.fGhost
     /\ arcCall.was.rFreq + 1 = arc.promotionThreshold) =>
        /\ arcCall.key \in FLive
        /\ arcCall.key \notin RLive

\* The sum of the frequencies of the nodes of mp.
RECURSIVE FreqSum(_, _)
FreqSum(mp, ks) ==
    IF ks = {} THEN 0
    ELSE LET k == CHOOSE x \in ks : TRUE
         IN  mp[k].freq + FreqSum(mp, ks \ {k})

\* C31: after every public call on an AvgLfu, totalFreq is the sum of the
\* frequencies of the resident entries, and so it is never negative.
C31_TotalFreqIsSum ==
    (kind = "AvgLfu" /\ ~lfu.crashed) =>
        /\ lfu.totalFreq = FreqSum(lfu.mp, DOMAIN lfu.mp)
        /\ lfu.totalFreq >= 0

\* C32: handling a membership event completes: the membership thread is never
\* stuck or thrown out of Set or Remove; once it has handled a PUT the address
\* is in the peer map and in the ring, once it has handled a DELETE it is in
\* neither; and when the handling (or the first fetch) is over, mtx is free.
C32_MembershipEventCompletes ==
    /\ member.pc \notin {"hung", "threw"}
    /\ member.last.type = "PUT" =>
           member.last.addr \in picker.peers /\ member.last.addr \in picker.hash_ring
    /\ member.last.type = "DELETE" =>
           member.last.addr \notin picker.peers /\ member.last.addr \notin picker.hash_ring
    /\ member.pc = "idle" => picker.writer = ""

\* The calls of the threads made one after another, in the order `order`, on
\* the LruK e: the object they leave and the value each get returns.
RECURSIVE SeqRun(_, _, _)
SeqRun(e, order, rets) ==
    IF order = << >> THEN [e |-> e, rets |-> rets]
    ELSE LET t == Head(order)
             c == kthr[t]
         IN  IF c.op = "put"
             THEN SeqRun(LruKPut(e, c.key, c.val), Tail(order), rets)
             ELSE SeqRun(LruKGet(e, c.key), Tail(order),
                         [rets EXCEPT ![t] = LruKGetValue(e, c.key)])

Orders == {q \in [1..NumThreads -> Threads] : \A i, j \in 1..NumThreads : i # j => q[i] # q[j]}

AllDone == \A t \in Threads : kthr[t].pc = "done"

\* C33: when threads call put and get on one LruK at the same time, the values
\* returned and the hot and cold stages left behind are those of the same calls
\* made one after another in some order.
C33_CallsAreAtomic ==
    (kind = "LruK" /\ AllDone /\ ~LruKCrashed(lruk)) =>
        \E q \in Orders :
            LET r == SeqRun(kstart.e, q, [t \in Threads |-> 0])
            IN  /\ r.e = lruk
                /\ \A t \in Threads : kthr[t].op = "get" => r.rets[t] = kthr[t].ret

\* C34: every read or write of cacheGroups, by CreateCacheGroup or by
\* GetCacheGroup, is made by the thread that holds cacheGroupsMutex, so no
\* lookup runs while an insertion is under way, and no name ever gets a second
\* CacheGroup.
C34_RegistryUnderMutex ==
    /\ \A t \in Threads : gthr[t].pc \in {"116", "121", "134"} => cacheGroupsMutex = t
    /\ \A t \in Threads : gthr[t].pc = "134" => Emplacing = {}
    /\ \A n \in GroupNames : made[n] <= 1

\* The leaders whose loading lambda got a peer from PickPeer and nothing from
\* peer->Get, and whose run() has the lambda's result.
PeerFailed ==
    {t \in Threads : /\ kind = "Group"
                     /\ leader[t]
                     /\ pc[t] \in {"publish", "relock", "returned"}
                     /\ lastLoad[t].peer
                     /\ lastLoad[t].pv = Nullopt}

C37_SizeCountsResidentKeys ==
    (kind = "Lru" /\ ~lru.crashed) =>
        /\ lru.size = Cardinality(DOMAIN lru.cacheMap)
        /\ (lastOp.op = "put" /\ evicted # {}) =>
               Cardinality(DOMAIN lru.cacheMap) = lru.capacity

\* C38: an arc.get(k) that returns a hit returns the value of the most recent
\* arc.put(k, v).
C38_HitReturnsLatestPut ==
    (kind = "Arc" /\ arcCall.op = "get" /\ arcCall.hit) =>
        arcCall.val = latest[arcCall.key]

\* C39: a Set or Delete is handled by no node twice, whatever the rings of the
\* nodes say: the peer RPCs it causes are fewer than there are nodes.
C39_ForwardingIsBounded ==
    /\ \A i, j \in 1..Len(fwd.chain) : i # j => fwd.chain[i].node # fwd.chain[j].node
    /\ fwd.rpcs < NumAddrs

\* C40: once a discovery poll has listed the coordinator's keys, the gateway's
\* ring holds no node whose key the poll did not list, and until the next poll
\* GetCacheNode chooses none.
C40_RingFollowsCoordinator ==
    gateway.polled =>
        /\ gateway.ring \subseteq gateway.seen
        /\ gateway.target # 0 => gateway.target \in gateway.seen

=============================================================================
